---- MODULE Spec2Model ----
(***************************************************************************)
(* Verification model of the chat retrieval engine (src/utils/chat.py) and *)
(* of the cumulative failure timeline (src/utils/time_predictions.py).     *)
(*                                                                         *)
(* Text is modelled as a sequence of one-character strings, so that the    *)
(* substring tests, lower(), split(), strip() and join() of the source are *)
(* computed character by character.                                        *)
(***************************************************************************)
EXTENDS Integers, Sequences, FiniteSets, TLC

VARIABLES
  now,              \* time.time(), in seconds
  embedding_cache,  \* chat.py 30: normalized text -> [embedding, timestamp]
  context_cache,    \* chat.py 36: query type key -> [context, timestamp]
  last,             \* the last call: its input, its effects in order, its result
  calls,            \* calls made so far
  stores,           \* text -> [embedding, time] of the last provider answer stored for it
  cls,              \* classifier run: [pc, query, query_types]
  keyrun,           \* cache key run: [pc, a, b, key_a, key_b]
  cum,              \* cumulative timeline run
  asm,              \* context assembly run: two arrival orders of one result set
  tl,               \* point timeline run over several components
  sweep,            \* cache sweep run
  race,             \* two concurrent callers of the retrieval
  run,              \* one call of search_database_for_context, step by step
  conv,             \* chat.py 25: conversation_history of one session, and the last call
  rt                \* openai_realtime.py: the client, its events and the call in progress

vars ==
  <<now, embedding_cache, context_cache, last, calls, stores, cls, keyrun, cum,
    asm, tl, sweep, race, run, conv, rt>>

(***************************************************************************)
(* Text primitives (Python str methods used by chat.py)                    *)
(***************************************************************************)
UpperCase ==
  <<"A","B","C","D","E","F","G","H","I","J","K","L","M",
    "N","O","P","Q","R","S","T","U","V","W","X","Y","Z">>

LowerCase ==
  <<"a","b","c","d","e","f","g","h","i","j","k","l","m",
    "n","o","p","q","r","s","t","u","v","w","x","y","z">>

Digits == <<"0","1","2","3","4","5","6","7","8","9">>

InSeq(x, s) == \E i \in 1..Len(s) : s[i] = x

IndexOf(x, s) == CHOOSE i \in 1..Len(s) : s[i] = x

\* str.lower() on one character
LowerChar(c) == IF InSeq(c, UpperCase) THEN LowerCase[IndexOf(c, UpperCase)] ELSE c

\* str.lower()
Lower(s) == [i \in 1..Len(s) |-> LowerChar(s[i])]

\* the characters str.split() and str.strip() treat as whitespace
IsSpace(c) == c \in {" ", "\n", "\t"}

\* the characters the regex \b treats as word characters
IsWordChar(c) == InSeq(c, LowerCase) \/ InSeq(c, UpperCase) \/ InSeq(c, Digits) \/ c = "_"

RECURSIVE SplitFrom(_, _, _, _)
SplitFrom(s, i, word, acc) ==
  IF i > Len(s)
    THEN IF word = <<>> THEN acc ELSE Append(acc, word)
    ELSE IF IsSpace(s[i])
           THEN SplitFrom(s, i + 1, <<>>, IF word = <<>> THEN acc ELSE Append(acc, word))
           ELSE SplitFrom(s, i + 1, Append(word, s[i]), acc)

\* str.split() with no argument: the maximal runs of non-whitespace
Split(s) == SplitFrom(s, 1, <<>>, <<>>)

RECURSIVE Join(_, _)
\* sep.join(parts)
Join(sep, parts) ==
  IF parts = <<>> THEN <<>>
  ELSE IF Len(parts) = 1 THEN parts[1]
  ELSE parts[1] \o sep \o Join(sep, Tail(parts))

RECURSIVE LStrip(_)
LStrip(s) == IF s # <<>> /\ IsSpace(s[1]) THEN LStrip(Tail(s)) ELSE s

RECURSIVE RStrip(_)
RStrip(s) ==
  IF s # <<>> /\ IsSpace(s[Len(s)]) THEN RStrip(SubSeq(s, 1, Len(s) - 1)) ELSE s

\* str.strip()
Strip(s) == RStrip(LStrip(s))

\* text.replace("\n", " ")
ReplaceNewlines(s) == [i \in 1..Len(s) |-> IF s[i] = "\n" THEN " " ELSE s[i]]

\* Python's `term in s` on strings
Contains(term, s) ==
  \E i \in 0..(Len(s) - Len(term)) : SubSeq(s, i + 1, i + Len(term)) = term

\* the terms of a list that occur in s, in list order
TermsIn(terms, s) == SelectSeq(terms, LAMBDA t : Contains(t, s))

AnyTermIn(terms, s) == \E i \in 1..Len(terms) : Contains(terms[i], s)

(***************************************************************************)
(* Term lists of chat.py                                                   *)
(***************************************************************************)
\* chat.py 168-168, simple_greetings in search_database_for_context
simple_greetings ==
  << <<"h","i">>, <<"h","e","l","l","o">>, <<"h","e","y">>,
     <<"g","r","e","e","t","i","n","g","s">>, <<"h","o","w","d","y">>,
     <<"w","h","a","t","'","s"," ","u","p">>, <<"s","u","p">> >>

\* chat.py 348-357, mechanic_terms in detect_query_type
mechanic_terms ==
  << <<"c","a","r">>, <<"v","e","h","i","c","l","e">>, <<"a","u","t","o">>,
     <<"a","u","t","o","m","o","t","i","v","e">>, <<"e","n","g","i","n","e">>,
     <<"t","r","a","n","s","m","i","s","s","i","o","n">>, <<"b","r","a","k","e">>,
     <<"s","u","s","p","e","n","s","i","o","n">>, <<"s","t","e","e","r","i","n","g">>,
     <<"e","x","h","a","u","s","t">>, <<"c","a","t","a","l","y","t","i","c">>,
     <<"m","u","f","f","l","e","r">>, <<"r","a","d","i","a","t","o","r">>,
     <<"a","l","t","e","r","n","a","t","o","r">>, <<"b","a","t","t","e","r","y">>,
     <<"s","t","a","r","t","e","r">>, <<"i","g","n","i","t","i","o","n">>,
     <<"s","p","a","r","k"," ","p","l","u","g">>, <<"f","u","e","l">>, <<"o","i","l">>,
     <<"f","i","l","t","e","r">>, <<"c","o","o","l","a","n","t">>, <<"f","l","u","i","d">>,
     <<"t","i","r","e">>, <<"w","h","e","e","l">>, <<"a","x","l","e">>, <<"d","r","i","v","e">>,
     <<"d","r","i","v","e"," ","s","h","a","f","t">>, <<"c","v"," ","j","o","i","n","t">>,
     <<"b","e","a","r","i","n","g">>, <<"s","e","n","s","o","r">>,
     <<"c","o","m","p","u","t","e","r">>, <<"e","c","u">>, <<"e","c","m">>, <<"m","a","k","e">>,
     <<"m","o","d","e","l">>, <<"y","e","a","r">>, <<"h","o","n","d","a">>,
     <<"t","o","y","o","t","a">>, <<"f","o","r","d">>, <<"c","h","e","v","r","o","l","e","t">>,
     <<"n","i","s","s","a","n">>, <<"b","m","w">>, <<"m","e","r","c","e","d","e","s">>,
     <<"a","u","d","i">>, <<"v","o","l","k","s","w","a","g","e","n">>,
     <<"h","y","u","n","d","a","i">>, <<"k","i","a">>, <<"m","a","z","d","a">>,
     <<"l","e","x","u","s">>, <<"a","c","u","r","a">>, <<"i","n","f","i","n","i","t","i">>,
     <<"r","e","p","a","i","r">>, <<"r","e","p","l","a","c","e">>, <<"f","i","x">>,
     <<"s","e","r","v","i","c","e">>, <<"m","a","i","n","t","a","i","n">>,
     <<"m","a","i","n","t","e","n","a","n","c","e">> >>

\* chat.py 371-372, price_terms in detect_query_type
price_terms ==
  << <<"p","r","i","c","e">>, <<"c","o","s","t">>, <<"e","x","p","e","n","s","i","v","e">>,
     <<"c","h","e","a","p">>, <<"a","f","f","o","r","d","a","b","l","e">>,
     <<"p","r","e","m","i","u","m">>, <<"e","c","o","n","o","m","y">>,
     <<"s","t","a","n","d","a","r","d">>, <<"o","e","m">>,
     <<"a","f","t","e","r","m","a","r","k","e","t">>, <<"q","u","a","l","i","t","y">>, <<"$">>,
     <<"d","o","l","l","a","r">> >>

\* chat.py 407-416, documentation_terms in is_documentation_query
documentation_terms ==
  << <<"h","o","w"," ","d","o","e","s">>, <<"h","o","w"," ","d","o"," ","y","o","u">>,
     <<"h","o","w"," ","i","s">>, <<"w","h","y"," ","i","s">>, <<"w","h","a","t"," ","i","s">>,
     <<"e","x","p","l","a","i","n">>, <<"d","o","c","u","m","e","n","t","a","t","i","o","n">>,
     <<"t","e","c","h","n","i","c","a","l">>, <<"d","e","s","i","g","n">>,
     <<"a","r","c","h","i","t","e","c","t","u","r","e">>, <<"i","m","p","l","e","m","e","n","t">>,
     <<"a","l","g","o","r","i","t","h","m">>, <<"c","o","d","e">>,
     <<"f","u","n","c","t","i","o","n">>, <<"f","e","a","t","u","r","e">>,
     <<"c","a","p","a","b","i","l","i","t","y">>, <<"a","p","i">>,
     <<"d","a","t","a","b","a","s","e">>, <<"s","c","h","e","m","a">>, <<"s","q","l">>,
     <<"v","e","c","t","o","r">>, <<"e","m","b","e","d","d","i","n","g">>,
     <<"p","r","e","d","i","c","t","i","o","n">>,
     <<"m","a","c","h","i","n","e"," ","l","e","a","r","n","i","n","g">>, <<"m","l">>,
     <<"a","i">>,
     <<"a","r","t","i","f","i","c","i","a","l"," ","i","n","t","e","l","l","i","g","e","n","c","e">>,
     <<"d","e","v","e","l","o","p">>, <<"s","y","s","t","e","m">>,
     <<"a","p","p","l","i","c","a","t","i","o","n">>, <<"a","p","p">>,
     <<"p","r","o","j","e","c","t">>, <<"f","r","a","m","e","w","o","r","k">>,
     <<"m","e","t","h","o","d","o","l","o","g","y">>, <<"a","p","p","r","o","a","c","h">>,
     <<"s","t","r","a","t","e","g","y">>,
     <<"i","n","f","r","a","s","t","r","u","c","t","u","r","e">>, <<"b","a","c","k","e","n","d">>,
     <<"f","r","o","n","t","e","n","d">>, <<"u","i">>, <<"i","n","t","e","r","f","a","c","e">> >>

\* chat.py 497-510, part_terms in extract_search_terms
part_terms ==
  << <<"b","r","a","k","e"," ","p","a","d">>, <<"b","r","a","k","e"," ","p","a","d","s">>,
     <<"b","r","a","k","e","s">>, <<"r","o","t","o","r">>, <<"r","o","t","o","r","s">>,
     <<"a","l","t","e","r","n","a","t","o","r">>, <<"b","a","t","t","e","r","y">>,
     <<"o","i","l"," ","f","i","l","t","e","r">>, <<"a","i","r"," ","f","i","l","t","e","r">>,
     <<"c","a","b","i","n"," ","f","i","l","t","e","r">>,
     <<"s","p","a","r","k"," ","p","l","u","g">>, <<"s","p","a","r","k"," ","p","l","u","g","s">>,
     <<"f","u","e","l"," ","p","u","m","p">>, <<"w","a","t","e","r"," ","p","u","m","p">>,
     <<"r","a","d","i","a","t","o","r">>, <<"t","h","e","r","m","o","s","t","a","t">>,
     <<"t","i","m","i","n","g"," ","b","e","l","t">>,
     <<"t","i","m","i","n","g"," ","c","h","a","i","n">>,
     <<"s","e","r","p","e","n","t","i","n","e"," ","b","e","l","t">>,
     <<"s","u","s","p","e","n","s","i","o","n">>, <<"s","t","r","u","t">>,
     <<"s","t","r","u","t","s">>, <<"s","h","o","c","k">>, <<"s","h","o","c","k","s">>,
     <<"t","i","e"," ","r","o","d">>, <<"b","a","l","l"," ","j","o","i","n","t">>,
     <<"c","o","n","t","r","o","l"," ","a","r","m">>,
     <<"w","h","e","e","l"," ","b","e","a","r","i","n","g">>, <<"a","x","l","e">>,
     <<"c","v"," ","j","o","i","n","t">>, <<"s","t","a","r","t","e","r">>,
     <<"s","t","a","r","t","e","r"," ","m","o","t","o","r">>,
     <<"i","g","n","i","t","i","o","n"," ","c","o","i","l">>, <<"i","g","n","i","t","i","o","n">>,
     <<"d","i","s","t","r","i","b","u","t","o","r">>,
     <<"t","r","a","n","s","m","i","s","s","i","o","n">>, <<"c","l","u","t","c","h">>,
     <<"f","l","y","w","h","e","e","l">>,
     <<"c","a","t","a","l","y","t","i","c"," ","c","o","n","v","e","r","t","e","r">>,
     <<"m","u","f","f","l","e","r">>, <<"e","x","h","a","u","s","t">>,
     <<"o","x","y","g","e","n"," ","s","e","n","s","o","r">>,
     <<"o","2"," ","s","e","n","s","o","r">>,
     <<"m","a","s","s"," ","a","i","r"," ","f","l","o","w">>,
     <<"m","a","f"," ","s","e","n","s","o","r">>,
     <<"f","u","e","l"," ","i","n","j","e","c","t","o","r">>, <<"i","n","j","e","c","t","o","r">>,
     <<"h","o","s","e">>, <<"b","e","l","t">>, <<"p","u","l","l","e","y">>,
     <<"g","a","s","k","e","t">>, <<"h","e","a","d"," ","g","a","s","k","e","t">>,
     <<"v","a","l","v","e">>, <<"s","e","n","s","o","r">>, <<"s","w","i","t","c","h">>,
     <<"r","e","l","a","y">>, <<"f","u","s","e">>, <<"b","u","l","b">>,
     <<"h","e","a","d","l","i","g","h","t">>, <<"t","a","i","l"," ","l","i","g","h","t">>,
     <<"b","r","a","k","e"," ","l","i","g","h","t">>, <<"w","i","p","e","r">>,
     <<"w","i","p","e","r"," ","b","l","a","d","e">> >>

\* chat.py 513-513, quality_terms in extract_search_terms
quality_terms ==
  << <<"p","r","e","m","i","u","m">>, <<"s","t","a","n","d","a","r","d">>,
     <<"e","c","o","n","o","m","y">>, <<"o","e","m">>,
     <<"a","f","t","e","r","m","a","r","k","e","t">>,
     <<"p","e","r","f","o","r","m","a","n","c","e">> >>

\* chat.py 516-524, car_models in extract_search_terms
car_models ==
  << <<"h","o","n","d","a">>, <<"t","o","y","o","t","a">>, <<"f","o","r","d">>,
     <<"c","h","e","v","r","o","l","e","t">>, <<"c","h","e","v","y">>,
     <<"n","i","s","s","a","n">>, <<"h","y","u","n","d","a","i">>, <<"k","i","a">>,
     <<"b","m","w">>, <<"m","e","r","c","e","d","e","s">>, <<"a","u","d","i">>,
     <<"v","o","l","k","s","w","a","g","e","n">>, <<"v","w">>, <<"s","u","b","a","r","u">>,
     <<"m","a","z","d","a">>, <<"l","e","x","u","s">>, <<"a","c","u","r","a">>,
     <<"i","n","f","i","n","i","t","i">>, <<"j","e","e","p">>, <<"d","o","d","g","e">>,
     <<"r","a","m">>, <<"c","h","r","y","s","l","e","r">>, <<"f","i","a","t">>,
     <<"c","i","v","i","c">>, <<"a","c","c","o","r","d">>, <<"c","r","-","v">>, <<"c","r","v">>,
     <<"p","i","l","o","t">>, <<"c","a","m","r","y">>, <<"c","o","r","o","l","l","a">>,
     <<"r","a","v","4">>, <<"h","i","g","h","l","a","n","d","e","r">>, <<"f","-","1","5","0">>,
     <<"f","o","c","u","s">>, <<"e","s","c","a","p","e">>, <<"e","x","p","l","o","r","e","r">>,
     <<"s","i","l","v","e","r","a","d","o">>, <<"m","a","l","i","b","u">>,
     <<"e","q","u","i","n","o","x">>, <<"a","l","t","i","m","a">>, <<"s","e","n","t","r","a">>,
     <<"r","o","g","u","e">>, <<"e","l","a","n","t","r","a">>, <<"s","o","n","a","t","a">>,
     <<"t","u","c","s","o","n">>, <<"s","o","u","l">>, <<"f","o","r","t","e">>,
     <<"s","o","r","e","n","t","o">>, <<"3","-","s","e","r","i","e","s">>,
     <<"c","-","c","l","a","s","s">>, <<"a","4">>, <<"j","e","t","t","a">>,
     <<"p","a","s","s","a","t">>, <<"o","u","t","b","a","c","k">>,
     <<"f","o","r","e","s","t","e","r">>, <<"i","m","p","r","e","z","a">>, <<"c","x","-","5">>,
     <<"m","a","z","d","a","3">>, <<"e","s">>, <<"r","x">>, <<"t","l","x">>, <<"m","d","x">>,
     <<"q","5","0">>, <<"q","6","0">>, <<"w","r","a","n","g","l","e","r">>,
     <<"g","r","a","n","d"," ","c","h","e","r","o","k","e","e">>,
     <<"r","a","m"," ","1","5","0","0">>, <<"c","h","a","r","g","e","r">>,
     <<"c","h","a","l","l","e","n","g","e","r">> >>

\* chat.py 565-579, symptom_terms in extract_symptom_terms
symptom_terms ==
  << <<"n","o","i","s","e">>, <<"g","r","i","n","d","i","n","g">>,
     <<"s","q","u","e","a","k","i","n","g">>, <<"s","q","u","e","a","l","i","n","g">>,
     <<"r","a","t","t","l","i","n","g">>, <<"k","n","o","c","k","i","n","g">>,
     <<"c","l","u","n","k","i","n","g">>, <<"v","i","b","r","a","t","i","o","n">>,
     <<"s","h","a","k","i","n","g">>, <<"w","o","b","b","l","i","n","g">>, <<"p","u","l","l">>,
     <<"p","u","l","l","i","n","g">>, <<"d","r","i","f","t">>,
     <<"d","r","i","f","t","i","n","g">>, <<"l","e","a","k">>, <<"l","e","a","k","i","n","g">>,
     <<"s","m","o","k","e">>, <<"s","m","o","k","i","n","g">>, <<"s","m","e","l","l">>,
     <<"b","u","r","n","i","n","g">>, <<"o","v","e","r","h","e","a","t","i","n","g">>,
     <<"o","v","e","r","h","e","a","t">>, <<"h","o","t">>, <<"c","o","l","d">>,
     <<"m","i","s","f","i","r","e">>, <<"s","t","a","l","l">>,
     <<"s","t","a","l","l","i","n","g">>, <<"r","o","u","g","h"," ","i","d","l","e">>,
     <<"i","d","l","e">>, <<"h","e","s","i","t","a","t","i","o","n">>, <<"s","u","r","g","e">>,
     <<"s","u","r","g","i","n","g">>, <<"s","p","u","t","t","e","r">>,
     <<"s","p","u","t","t","e","r","i","n","g">>, <<"h","a","r","d"," ","s","t","a","r","t">>,
     <<"n","o"," ","s","t","a","r","t">>, <<"w","o","n","'","t"," ","s","t","a","r","t">>,
     <<"c","h","e","c","k"," ","e","n","g","i","n","e">>,
     <<"c","h","e","c","k"," ","e","n","g","i","n","e"," ","l","i","g","h","t">>,
     <<"w","a","r","n","i","n","g"," ","l","i","g","h","t">>,
     <<"d","a","s","h","b","o","a","r","d"," ","l","i","g","h","t">>,
     <<"a","b","s"," ","l","i","g","h","t">>,
     <<"t","r","a","c","t","i","o","n"," ","c","o","n","t","r","o","l">>,
     <<"b","r","a","k","e"," ","l","i","g","h","t">>, <<"o","i","l"," ","l","i","g","h","t">>,
     <<"b","a","t","t","e","r","y"," ","l","i","g","h","t">>,
     <<"p","o","w","e","r"," ","l","o","s","s">>, <<"l","o","s","e"," ","p","o","w","e","r">>,
     <<"p","o","o","r"," ","a","c","c","e","l","e","r","a","t","i","o","n">>,
     <<"s","l","o","w"," ","a","c","c","e","l","e","r","a","t","i","o","n">>,
     <<"p","o","o","r"," ","f","u","e","l"," ","e","c","o","n","o","m","y">>,
     <<"g","a","s"," ","m","i","l","e","a","g","e">>, <<"m","p","g">>,
     <<"f","u","e","l"," ","c","o","n","s","u","m","p","t","i","o","n">>,
     <<"t","r","a","n","s","m","i","s","s","i","o","n"," ","s","l","i","p">>,
     <<"s","l","i","p","p","i","n","g">>, <<"h","a","r","d"," ","s","h","i","f","t">>,
     <<"d","e","l","a","y","e","d"," ","s","h","i","f","t">>, <<"n","o"," ","s","h","i","f","t">>,
     <<"j","e","r","k">>, <<"j","e","r","k","i","n","g">>, <<"j","u","m","p">>,
     <<"j","u","m","p","i","n","g">>, <<"b","u","c","k">>, <<"b","u","c","k","i","n","g">>,
     <<"b","a","c","k","f","i","r","e">>, <<"p","u","l","s","a","t","e">>,
     <<"p","u","l","s","a","t","i","n","g">>, <<"s","p","o","n","g","y">>, <<"s","o","f","t">>,
     <<"h","a","r","d">>, <<"p","e","d","a","l">>, <<"s","t","e","e","r","i","n","g">> >>

\* chat.py 582-591, system_terms in extract_symptom_terms
system_terms ==
  << <<"b","r","a","k","e">>, <<"b","r","a","k","e","s">>,
     <<"b","r","a","k","e"," ","s","y","s","t","e","m">>,
     <<"b","r","a","k","e"," ","p","e","d","a","l">>, <<"s","t","e","e","r","i","n","g">>,
     <<"s","t","e","e","r","i","n","g"," ","w","h","e","e","l">>,
     <<"s","u","s","p","e","n","s","i","o","n">>, <<"e","n","g","i","n","e">>,
     <<"t","r","a","n","s","m","i","s","s","i","o","n">>, <<"c","l","u","t","c","h">>,
     <<"e","x","h","a","u","s","t">>,
     <<"c","a","t","a","l","y","t","i","c"," ","c","o","n","v","e","r","t","e","r">>,
     <<"m","u","f","f","l","e","r">>, <<"e","l","e","c","t","r","i","c","a","l">>,
     <<"b","a","t","t","e","r","y">>, <<"a","l","t","e","r","n","a","t","o","r">>,
     <<"s","t","a","r","t","e","r">>, <<"i","g","n","i","t","i","o","n">>,
     <<"c","o","o","l","i","n","g">>, <<"r","a","d","i","a","t","o","r">>,
     <<"t","h","e","r","m","o","s","t","a","t">>, <<"w","a","t","e","r"," ","p","u","m","p">>,
     <<"h","e","a","t","e","r">>, <<"a","c">>,
     <<"a","i","r"," ","c","o","n","d","i","t","i","o","n","i","n","g">>, <<"f","u","e","l">>,
     <<"f","u","e","l"," ","s","y","s","t","e","m">>, <<"f","u","e","l"," ","p","u","m","p">>,
     <<"f","u","e","l"," ","i","n","j","e","c","t","o","r">>, <<"f","i","l","t","e","r">>,
     <<"a","i","r"," ","f","i","l","t","e","r">>, <<"o","i","l"," ","f","i","l","t","e","r">>,
     <<"c","a","b","i","n"," ","f","i","l","t","e","r">>,
     <<"f","u","e","l"," ","f","i","l","t","e","r">>, <<"f","l","u","i","d">>, <<"o","i","l">>,
     <<"c","o","o","l","a","n","t">>,
     <<"t","r","a","n","s","m","i","s","s","i","o","n"," ","f","l","u","i","d">>,
     <<"b","r","a","k","e"," ","f","l","u","i","d">>,
     <<"p","o","w","e","r"," ","s","t","e","e","r","i","n","g"," ","f","l","u","i","d">>,
     <<"t","i","r","e">>, <<"t","i","r","e","s">>, <<"w","h","e","e","l">>,
     <<"w","h","e","e","l","s">> >>

\* chat.py 421: the technical terms that keep an automotive query a documentation query
tech_terms ==
  << <<"s","y","s","t","e","m">>, <<"a","l","g","o","r","i","t","h","m">>,
     <<"d","a","t","a","b","a","s","e">>, <<"a","p","p","l","i","c","a","t","i","o","n">>,
     <<"s","o","f","t","w","a","r","e">> >>

\* the query type tags
T_mechanic == <<"m","e","c","h","a","n","i","c">>
T_diagnostic == <<"d","i","a","g","n","o","s","t","i","c">>
T_symptom == <<"s","y","m","p","t","o","m">>
T_pricing == <<"p","r","i","c","i","n","g">>
T_part == <<"p","a","r","t">>
T_documentation == <<"d","o","c","u","m","e","n","t","a","t","i","o","n">>
\* tags that search_database_for_context tests and detect_query_type never produces
T_component == <<"c","o","m","p","o","n","e","n","t">>
T_vehicle == <<"v","e","h","i","c","l","e">>
T_make == <<"m","a","k","e">>
T_model == <<"m","o","d","e","l">>
T_cost == <<"c","o","s","t">>
T_problem == <<"p","r","o","b","l","e","m">>
\* the placeholder extract_symptom_terms returns when it finds nothing
W_common == <<"c","o","m","m","o","n">>
W_car == <<"c","a","r">>

(***************************************************************************)
(* Query classifier                                                        *)
(***************************************************************************)
\* the regex 19[9][0-9]|20[0-2][0-9] at position i of s
YearAt(s, i) ==
  /\ i + 3 <= Len(s)
  /\ InSeq(s[i + 3], Digits)
  /\ \/ s[i] = "1" /\ s[i + 1] = "9" /\ s[i + 2] = "9"
     \/ s[i] = "2" /\ s[i + 1] = "0" /\ s[i + 2] \in {"0", "1", "2"}
  /\ (i = 1 \/ ~IsWordChar(s[i - 1]))
  /\ (i + 4 > Len(s) \/ ~IsWordChar(s[i + 4]))

RECURSIVE YearsFrom(_, _)
YearsFrom(s, i) ==
  IF i > Len(s) THEN <<>>
  ELSE IF YearAt(s, i) THEN <<SubSeq(s, i, i + 3)>> \o YearsFrom(s, i + 4)
  ELSE YearsFrom(s, i + 1)

\* re.findall(r'\b(19[9][0-9]|20[0-2][0-9])\b', s)
YearMatches(s) == YearsFrom(s, 1)

FirstOf(s) == IF s = <<>> THEN <<>> ELSE <<s[1]>>

extract_search_terms(query) ==
  LET query_lower == Lower(query)
  IN  FirstOf(TermsIn(part_terms, query_lower))
        \o FirstOf(TermsIn(quality_terms, query_lower))
        \o TermsIn(car_models, query_lower)
        \o FirstOf(YearMatches(query_lower))

extract_symptom_terms(query) ==
  LET query_lower == Lower(query)
      found_terms == TermsIn(symptom_terms, query_lower) \o TermsIn(system_terms, query_lower)
  IN  IF found_terms = <<>> THEN <<W_common>> ELSE found_terms

is_documentation_query(query) ==
  LET query_lower == Lower(query)
  IN  /\ AnyTermIn(documentation_terms, query_lower)
      /\ ~ /\ (Contains(W_car, query_lower) \/ Contains(T_vehicle, query_lower))
           /\ ~AnyTermIn(tech_terms, query_lower)

\* the classifier that leaves an empty list empty
keep_query_types(query_types) == query_types

\* chat.py 388-390: default to documentation if no other types detected
default_query_types(query_types) ==
  IF query_types = <<>> THEN <<T_documentation>> ELSE query_types

\* the classifier that tags a symptom query as diagnostic only
symptom_query_types_diagnostic_only(found_symptoms) ==
  IF found_symptoms # <<>> /\ found_symptoms[1] # W_common
    THEN <<T_diagnostic>> ELSE <<>>

\* chat.py 364-368: a symptom or system term found gives both tags
symptom_query_types(found_symptoms) ==
  IF found_symptoms # <<>> /\ found_symptoms[1] # W_common
    THEN <<T_diagnostic, T_symptom>> ELSE <<>>

detect_query_type(query) ==
  LET query_lower == Lower(query)
      mechanic == IF AnyTermIn(mechanic_terms, query_lower) THEN <<T_mechanic>> ELSE <<>>
      found_symptoms == extract_symptom_terms(query)
      diagnostic == symptom_query_types(found_symptoms)
      pricing == IF AnyTermIn(price_terms, query_lower) THEN <<T_pricing>> ELSE <<>>
      part == IF extract_search_terms(query) # <<>> THEN <<T_part>> ELSE <<>>
      documentation == IF is_documentation_query(query) THEN <<T_documentation>> ELSE <<>>
      query_types == mechanic \o diagnostic \o pricing \o part \o documentation
  IN  default_query_types(query_types)

(***************************************************************************)
(* Selection of the searches (chat.py 191-219)                              *)
(***************************************************************************)
\* the selection that searches the documentation for every query
searches_to_run_documentation_always(query_type, documentation_query) ==
  LET has(tag) == InSeq(tag, query_type)
      pick(cond, search) == IF cond THEN <<search>> ELSE <<>>
  IN  pick(has(T_part) \/ has(T_mechanic), <<"match_parts", "parts_response">>)
      \o pick(has(T_component) \/ has(T_mechanic),
              <<"match_components", "components_response">>)
      \o pick(has(T_vehicle) \/ has(T_make) \/ has(T_model),
              <<"match_vehicle_types", "vehicle_types_response">>)
      \o pick(has(T_pricing) \/ has(T_cost),
              <<"match_part_prices", "part_prices_response">>)
      \o pick(has(T_diagnostic) \/ has(T_symptom) \/ has(T_problem),
              <<"match_failure_descriptions", "failures_response">>)
      \o pick(TRUE,
              <<"match_documentation", "documentation_response">>)

\* the selection that searches the vehicle types for a mechanic query
searches_to_run_vehicles_for_mechanic(query_type, documentation_query) ==
  LET has(tag) == InSeq(tag, query_type)
      pick(cond, search) == IF cond THEN <<search>> ELSE <<>>
  IN  pick(has(T_part) \/ has(T_mechanic), <<"match_parts", "parts_response">>)
      \o pick(has(T_component) \/ has(T_mechanic),
              <<"match_components", "components_response">>)
      \o pick(has(T_vehicle) \/ has(T_make) \/ has(T_model) \/ has(T_mechanic),
              <<"match_vehicle_types", "vehicle_types_response">>)
      \o pick(has(T_pricing) \/ has(T_cost),
              <<"match_part_prices", "part_prices_response">>)
      \o pick(has(T_diagnostic) \/ has(T_symptom) \/ has(T_problem),
              <<"match_failure_descriptions", "failures_response">>)
      \o pick(has(T_documentation) \/ documentation_query,
              <<"match_documentation", "documentation_response">>)

\* chat.py 193-219: the (function_name, result_key) pairs to run, in order
searches_to_run(query_type, documentation_query) ==
  LET has(tag) == InSeq(tag, query_type)
      pick(cond, search) == IF cond THEN <<search>> ELSE <<>>
  IN  pick(has(T_part) \/ has(T_mechanic), <<"match_parts", "parts_response">>)
      \o pick(has(T_component) \/ has(T_mechanic),
              <<"match_components", "components_response">>)
      \o pick(has(T_vehicle) \/ has(T_make) \/ has(T_model),
              <<"match_vehicle_types", "vehicle_types_response">>)
      \o pick(has(T_pricing) \/ has(T_cost),
              <<"match_part_prices", "part_prices_response">>)
      \o pick(has(T_diagnostic) \/ has(T_symptom) \/ has(T_problem),
              <<"match_failure_descriptions", "failures_response">>)
      \o pick(has(T_documentation) \/ documentation_query,
              <<"match_documentation", "documentation_response">>)

(***************************************************************************)
(* Context cache key (chat.py 183-184)                                     *)
(***************************************************************************)
\* code point order of two characters (lowercase letters and digits suffice for tags)
CharOrder == <<"+","0","1","2","3","4","5","6","7","8","9">> \o UpperCase \o LowerCase

CharLess(c, d) == IndexOf(c, CharOrder) < IndexOf(d, CharOrder)

RECURSIVE StrLess(_, _)
\* Python's s < t on strings
StrLess(s, t) ==
  IF t = <<>> THEN FALSE
  ELSE IF s = <<>> THEN TRUE
  ELSE IF s[1] = t[1] THEN StrLess(Tail(s), Tail(t))
  ELSE CharLess(s[1], t[1])

RECURSIVE Insert(_, _)
Insert(x, s) ==
  IF s = <<>> THEN <<x>>
  ELSE IF StrLess(x, s[1]) THEN <<x>> \o s
  ELSE <<s[1]>> \o Insert(x, Tail(s))

RECURSIVE Sorted(_)
\* sorted(list of str)
Sorted(s) == IF s = <<>> THEN <<>> ELSE Insert(s[Len(s)], Sorted(SubSeq(s, 1, Len(s) - 1)))

\* the key that joins the tags in the order given
QueryTypeKeyUnsorted(query_type) == Join(<<"+">>, query_type)

\* chat.py 184: "+".join(sorted(query_type))
QueryTypeKey(query_type) == Join(<<"+">>, Sorted(query_type))

(***************************************************************************)
(* Exact rational arithmetic for probabilities: <<numerator, denominator>> *)
(***************************************************************************)
RECURSIVE GCD(_, _)
GCD(a, b) == IF b = 0 THEN a ELSE GCD(b, a % b)

Abs(n) == IF n < 0 THEN -n ELSE n

Norm(r) ==
  LET s == IF r[2] < 0 THEN -1 ELSE 1
      g == GCD(Abs(r[1]), Abs(r[2]))
  IN  <<(s * r[1]) \div g, (s * r[2]) \div g>>

Zero == <<0, 1>>
One == <<1, 1>>
RAdd(a, b) == Norm(<<a[1] * b[2] + b[1] * a[2], a[2] * b[2]>>)
RSub(a, b) == Norm(<<a[1] * b[2] - b[1] * a[2], a[2] * b[2]>>)
RMul(a, b) == Norm(<<a[1] * b[1], a[2] * b[2]>>)
RDiv(a, b) == Norm(<<a[1] * b[2], a[2] * b[1]>>)
RLess(a, b) == a[1] * b[2] < b[1] * a[2]
RLeq(a, b) == a[1] * b[2] <= b[1] * a[2]

(***************************************************************************)
(* Failure timeline (time_predictions.py)                                  *)
(***************************************************************************)
RECURSIVE IntToStr(_)
\* str(n) for n >= 0
IntToStr(n) == IF n < 10 THEN <<Digits[n + 1]>> ELSE IntToStr(n \div 10) \o <<Digits[(n % 10) + 1]>>

RECURSIVE StrToInt(_)
\* int(s) for a string of digits
StrToInt(s) ==
  IF s = <<>> THEN 0 ELSE 10 * StrToInt(SubSeq(s, 1, Len(s) - 1)) + (IndexOf(s[Len(s)], Digits) - 1)

\* time_predictions.py 173: f"{months} months"
WindowLabel(months) == IntToStr(months) \o <<" ","m","o","n","t","h","s">>

\* time_predictions.py 201: the sort key int(x.split()[0])
WindowMonths(label) == StrToInt(Split(label)[1])

RECURSIVE InsertWindow(_, _)
InsertWindow(x, s) ==
  IF s = <<>> THEN <<x>>
  ELSE IF WindowMonths(x) < WindowMonths(s[1]) THEN <<x>> \o s
  ELSE <<s[1]>> \o InsertWindow(x, Tail(s))

\* the sort of the labels as text, where "12 months" comes before "3 months"
SortWindowsAsText(s) == Sorted(s)

RECURSIVE SortWindows(_)
\* time_predictions.py 201: sorted(predictions.keys(), key=lambda x: int(x.split()[0]))
SortWindows(s) ==
  IF s = <<>> THEN <<>> ELSE InsertWindow(s[Len(s)], SortWindows(SubSeq(s, 1, Len(s) - 1)))

\* time_predictions.py 73, 118-119: the fallback rate and the projected mileage
DefaultMonthlyRate == 1000
estimate_future_mileage(vehicle_data, months_ahead) ==
  vehicle_data.mileage + DefaultMonthlyRate * months_ahead

\* time_predictions.py 160-178: point predictions by window label; the classifier's
\* probability for each horizon is the input prob[months]
predict_failure_timeline(vehicle_data, time_windows, prob) ==
  [label \in {WindowLabel(time_windows[i]) : i \in 1..Len(time_windows)} |->
     LET months == WindowMonths(label)
     IN  [probability |-> prob[months],
          projected_mileage |-> estimate_future_mileage(vehicle_data, months)]]

\* time_predictions.py 209: the conditional probability given survival so far
ConditionalProb(point_prob, cumulative_prob) ==
  IF RLess(cumulative_prob, One) THEN RDiv(point_prob, RSub(One, cumulative_prob)) ELSE Zero

\* the update that drops the running total
CumulativeUpdateDropped(cumulative_prob, point_prob) ==
  RMul(RSub(One, cumulative_prob), ConditionalProb(point_prob, cumulative_prob))

\* time_predictions.py 209-212: one step of the cumulative loop
CumulativeUpdate(cumulative_prob, point_prob) ==
  RAdd(cumulative_prob,
       RMul(RSub(One, cumulative_prob), ConditionalProb(point_prob, cumulative_prob)))

(***************************************************************************)
(* Bounds                                                                  *)
(***************************************************************************)
MaxWords == 3     \* words in a classified query
MaxTags == 3      \* tags in a sequence handed to query_type_key
MaxWindows == 3   \* horizons in one timeline request
NumVectors == 2   \* distinct vectors the embedding provider may answer with
Slack == 1        \* seconds observed on either side of an expiry time
MaxCalls == 2     \* calls in one behaviour of the chat and embedding specifications
MaxDispatch == 1  \* calls in one behaviour of the dispatch specification

Range(s) == {s[i] : i \in 1..Len(s)}

\* the sequences over S of length lo..hi
SeqsOver(S, lo, hi) == UNION {[1..n -> S] : n \in lo..hi}

NoRepeat(s) == \A i, j \in 1..Len(s) : i # j => s[i] # s[j]

Empty == <<>>

(***************************************************************************)
(* Idle values: each specification leaves the other runs untouched         *)
(***************************************************************************)
ClsIdle == [pc |-> "idle"]
KeyIdle == [pc |-> "idle"]
CumIdle == [pc |-> "idle"]
NoCall == [op |-> "none"]

ChatIdle ==
  /\ now = 0
  /\ embedding_cache = Empty
  /\ context_cache = Empty
  /\ last = NoCall
  /\ stores = Empty
  /\ calls = 0

chatVars == <<now, embedding_cache, context_cache, last, calls, stores>>

AsmIdle == [pc |-> "idle"]
TlIdle == [pc |-> "idle"]
SweepIdle == [pc |-> "idle"]
RaceIdle == [pc |-> "idle"]
RunIdle == [pc |-> "idle"]
ConvIdle == [pc |-> "idle"]
RtIdle == [pc |-> "idle"]

LateIdle == conv = ConvIdle /\ rt = RtIdle
lateVars == <<conv, rt>>

MoreIdle ==
  /\ asm = AsmIdle
  /\ tl = TlIdle
  /\ sweep = SweepIdle
  /\ race = RaceIdle
  /\ run = RunIdle
  /\ LateIdle

moreVars == <<asm, tl, sweep, race, run, conv, rt>>

(***************************************************************************)
(* Specification of the classifier: detect_query_type on bounded queries   *)
(***************************************************************************)
Vocabulary ==
  { <<"h","i">>,
    <<"c","a","r">>,
    <<"p","r","i","c","e">>,
    <<"b","r","a","k","e">>,
    <<"n","o","i","s","e">>,
    <<"e","x","p","l","a","i","n">>,
    <<"d","a","t","a","b","a","s","e">>,
    <<"H","o","n","d","a">>,
    <<"2","0","1","5">>,
    <<"j","o","k","e">> }

\* the queries of up to MaxWords words, the empty string included
ClassifyQueries == {Join(<<" ">>, ws) : ws \in SeqsOver(Vocabulary, 0, MaxWords)}

InitClassify ==
  /\ ChatIdle
  /\ MoreIdle
  /\ keyrun = KeyIdle
  /\ cum = CumIdle
  /\ cls \in {[pc |-> "start", query |-> q, query_types |-> <<>>, searches |-> <<>>] :
               q \in ClassifyQueries}

\* chat.py 180 and 191-219: the query is classified and the searches are selected
Classify ==
  /\ cls.pc = "start"
  /\ cls' = [cls EXCEPT
               !.pc = "done",
               !.query_types = detect_query_type(cls.query),
               !.searches = searches_to_run(detect_query_type(cls.query),
                                            is_documentation_query(cls.query))]
  /\ UNCHANGED <<chatVars, keyrun, cum, moreVars>>

NextClassify == Classify

SpecClassify == InitClassify /\ [][NextClassify]_vars

(***************************************************************************)
(* Specification of the cache key: query_type_key on two tag sequences     *)
(***************************************************************************)
TagVocabulary == {T_mechanic, T_diagnostic, T_pricing, T_part, T_documentation}

TagSeqs == {s \in SeqsOver(TagVocabulary, 1, MaxTags) : NoRepeat(s)}

InitKey ==
  /\ ChatIdle
  /\ MoreIdle
  /\ cls = ClsIdle
  /\ cum = CumIdle
  /\ keyrun \in {[pc |-> "start", a |-> a, b |-> b, key_a |-> <<>>, key_b |-> <<>>] :
                   a \in TagSeqs, b \in TagSeqs}

ComputeKeys ==
  /\ keyrun.pc = "start"
  /\ keyrun' = [keyrun EXCEPT !.pc = "done",
                              !.key_a = QueryTypeKey(keyrun.a),
                              !.key_b = QueryTypeKey(keyrun.b)]
  /\ UNCHANGED <<chatVars, cls, cum, moreVars>>

NextKey == ComputeKeys

SpecKey == InitKey /\ [][NextKey]_vars

(***************************************************************************)
(* Specification of the cumulative timeline                                *)
(***************************************************************************)
\* time_predictions.py 180: the default horizons, in months
Horizons == {3, 6, 12, 24}

WindowSeqs == {s \in SeqsOver(Horizons, 1, MaxWindows) : NoRepeat(s)}

\* point probabilities the classifier may return, in percent
PointPercents == {0, 5, 8, 15, 60, 100}
PointProbs == {Norm(<<p, 100>>) : p \in PointPercents}

Vehicle == [mileage |-> 80000]

InitCumulative ==
  /\ ChatIdle
  /\ MoreIdle
  /\ cls = ClsIdle
  /\ keyrun = KeyIdle
  /\ \E tw \in WindowSeqs : \E pr \in [Range(tw) -> PointProbs] :
       cum = [pc |-> "start", time_windows |-> tw, prob |-> pr,
              predictions |-> Empty, sorted_windows |-> <<>>, i |-> 0,
              cumulative_prob |-> Zero, cumulative_predictions |-> Empty]

\* time_predictions.py 194-204: point predictions, sorted windows, cumulative_prob = 0
CumulativeStart ==
  /\ cum.pc = "start"
  /\ LET predictions == predict_failure_timeline(Vehicle, cum.time_windows, cum.prob)
         keys == [i \in 1..Len(cum.time_windows) |-> WindowLabel(cum.time_windows[i])]
     IN  cum' = [cum EXCEPT !.pc = "loop", !.predictions = predictions,
                            !.sorted_windows = SortWindows(keys), !.i = 1,
                            !.cumulative_prob = Zero]
  /\ UNCHANGED <<chatVars, cls, keyrun, moreVars>>

\* time_predictions.py 205-218: one iteration of the loop over sorted_windows
CumulativeStep ==
  /\ cum.pc = "loop"
  /\ cum.i <= Len(cum.sorted_windows)
  /\ LET window == cum.sorted_windows[cum.i]
         point_prob == cum.predictions[window].probability
         cumulative_prob == CumulativeUpdate(cum.cumulative_prob, point_prob)
     IN  cum' = [cum EXCEPT !.i = cum.i + 1,
                            !.cumulative_prob = cumulative_prob,
                            !.cumulative_predictions =
                               (window :> [probability |-> cumulative_prob,
                                           projected_mileage |->
                                              cum.predictions[window].projected_mileage])
                               @@ cum.cumulative_predictions]
  /\ UNCHANGED <<chatVars, cls, keyrun, moreVars>>

\* time_predictions.py 220
CumulativeReturn ==
  /\ cum.pc = "loop"
  /\ cum.i > Len(cum.sorted_windows)
  /\ cum' = [cum EXCEPT !.pc = "done"]
  /\ UNCHANGED <<chatVars, cls, keyrun, moreVars>>

NextCumulative == CumulativeStart \/ CumulativeStep \/ CumulativeReturn

SpecCumulative == InitCumulative /\ [][NextCumulative]_vars

(***************************************************************************)
(* The chat queries and texts of the specifications                        *)
(***************************************************************************)
\* the normalisation that keeps the case of the text
normalize_text_keep_case(text) == Join(<<" ">>, Split(text))

\* chat.py 40-42
normalize_text_for_cache(text) == Join(<<" ">>, Split(Lower(text)))

\* chat.py 171
SimpleReplyText ==
  <<"This is a simple greeting or short query. No specific automotive context needed.">>

\* the test that knows the greetings only
IsGreetingOnly(query) == InSeq(Strip(Lower(query)), simple_greetings)

\* chat.py 169
IsSimpleQuery(query) ==
  InSeq(Strip(Lower(query)), simple_greetings) \/ Len(Split(query)) <= 2

\* the queries of the chat specification
Q_greeting == <<" ","H","e","l","l","o"," ">>
Q_short == <<"b","r","a","k","e"," ","p","a","d","s">>
Q_price == <<"w","h","a","t"," ","c","a","r"," ","p","r","i","c","e"," ","t","o","d","a","y">>
Q_price_variant ==
  <<"W","h","a","t"," "," ","c","a","r","\n","p","r","i","c","e"," ","T","O","D","A","Y">>
Q_price_other == <<"i","s"," ","c","a","r"," ","p","r","i","c","e"," ","h","i","g","h">>
Q_joke == <<"t","e","l","l"," ","a"," ","j","o","k","e">>

Q_civic ==
  <<"b","r","a","k","e"," ","p","a","d","s"," ","p","r","i","c","e"," ","f","o","r"," ","H","o","n","d","a"," ","C","i","v","i","c">>
Q_database ==
  <<"h","o","w"," ","d","o","e","s"," ","t","h","e"," ","d","a","t","a","b","a","s","e"," ","w","o","r","k">>

\* a query with a price term and a year, and no mechanic term
Q_year_price == <<"2","0","1","5"," ","p","r","i","c","e"," ","j","o","k","e">>

ChatQueries ==
  {Q_greeting, Q_short, Q_price, Q_price_variant, Q_price_other, Q_joke, Q_civic, Q_database,
   Q_year_price}

\* detect_query_type and is_documentation_query on the chat queries, computed once
RECURSIVE Table(_, _)
\* the function q |-> F(q) on S, with every value computed
Table(F(_), S) ==
  IF S = {} THEN Empty
  ELSE LET q == CHOOSE x \in S : TRUE IN (q :> F(q)) @@ Table(F, S \ {q})

\* chat.py 48-51: the cache key get_embedding looks a text up under
EmbeddingKey(text) == normalize_text_for_cache(ReplaceNewlines(text))

\* the text functions on the chat queries, computed once
Simple == Table(IsSimpleQuery, ChatQueries)
EmbeddingKeys == Table(EmbeddingKey, ChatQueries)
QueryTypes == Table(detect_query_type, ChatQueries)
IsDocumentation == Table(is_documentation_query, ChatQueries)
QueryTypeKeys == Table(QueryTypeKey, {QueryTypes[q] : q \in ChatQueries})


(***************************************************************************)
(* Embedding cache and context cache (chat.py 28-133)                      *)
(***************************************************************************)
EMBEDDING_CACHE_EXPIRY == 3600
CONTEXT_CACHE_EXPIRY == 300
EMBEDDING_CACHE_LIMIT == 100
CONTEXT_CACHE_LIMIT == 50

\* Python's None and a value that may be None
None == [is_none |-> TRUE, value |-> <<>>]
Some(v) == [is_none |-> FALSE, value |-> v]

\* Python truthiness of an optional list or string
Truthy(o) == ~o.is_none /\ o.value # <<>>

\* a local name: body(value)
Bind(value, body(_)) == body(value)

\* d[k] = v on a dict
Put(d, k, v) == [x \in DOMAIN d \cup {k} |-> IF x = k THEN v ELSE d[x]]

\* the dict without the keys in ks
Without(d, ks) == [x \in DOMAIN d \ ks |-> d[x]]

\* chat.py 88-99
clean_embedding_cache(cache, current_time) ==
  Without(cache, {key \in DOMAIN cache :
                    current_time - cache[key].timestamp > EMBEDDING_CACHE_EXPIRY})

\* chat.py 53-60: the cached vector served without a provider call
EmbeddingCacheHit(cache, normalized_text, current_time) ==
  /\ normalized_text \in DOMAIN cache
  /\ current_time - cache[normalized_text].timestamp < EMBEDDING_CACHE_EXPIRY

\* the handler that drops the entry of the text that failed
embedding_error_evicting(cache, normalized_text) == Without(cache, {normalized_text})

\* chat.py 84-86: the provider call raised; the handler prints the error and
\* returns None, and the cache is what it was
embedding_error(cache, normalized_text) == cache

\* chat.py 44-86: get_embedding at time current_time. provider is what the embedding
\* provider would answer, None standing for an exception. The result is the returned
\* value, the cache afterwards and the effects in order.
get_embedding(text, cache, current_time, provider) ==
  Bind(EmbeddingKeys[text], LAMBDA normalized_text :
    IF EmbeddingCacheHit(cache, normalized_text, current_time)
      THEN [ret |-> Some(cache[normalized_text].embedding),
            cache |-> cache,
            trace |-> <<"embedding_cache_read">>]
    ELSE IF provider.is_none
      THEN [ret |-> None,
            cache |-> embedding_error(cache, normalized_text),
            trace |-> <<"embedding_cache_read", "embedding_provider_call">>]
    ELSE LET stored == Put(cache, normalized_text,
                           [embedding |-> provider.value, timestamp |-> current_time])
         IN  [ret |-> provider,
              cache |-> IF Cardinality(DOMAIN stored) > EMBEDDING_CACHE_LIMIT
                          THEN clean_embedding_cache(stored, current_time)
                          ELSE stored,
              trace |-> <<"embedding_cache_read", "embedding_provider_call",
                          "embedding_cache_write">>])

\* the lookup that serves an entry of any age
get_cached_context_any_age(query_type_key, cache, current_time) ==
  IF query_type_key \in DOMAIN cache THEN Some(cache[query_type_key].context) ELSE None

\* chat.py 101-109
get_cached_context(query_type_key, cache, current_time) ==
  IF /\ query_type_key \in DOMAIN cache
     /\ current_time - cache[query_type_key].timestamp < CONTEXT_CACHE_EXPIRY
    THEN Some(cache[query_type_key].context)
    ELSE None

\* chat.py 122-133
\* the sweep that also removes the entries whose age is exactly the expiry
clean_context_cache_at_expiry(cache, current_time) ==
  Without(cache, {key \in DOMAIN cache :
                    current_time - cache[key].timestamp >= CONTEXT_CACHE_EXPIRY})

clean_context_cache(cache, current_time) ==
  Without(cache, {key \in DOMAIN cache :
                    current_time - cache[key].timestamp > CONTEXT_CACHE_EXPIRY})

\* chat.py 111-120
cache_context(query_type_key, context, cache, current_time) ==
  LET stored == Put(cache, query_type_key, [context |-> context, timestamp |-> current_time])
  IN  IF Cardinality(DOMAIN stored) > CONTEXT_CACHE_LIMIT
        THEN clean_context_cache(stored, current_time)
        ELSE stored

(***************************************************************************)
(* Retrieval dispatch (chat.py 135-149, 193-243)                           *)
(***************************************************************************)
\* a similarity search response, and the null a failed search is recorded as
Null == [status |-> "null", data |-> <<>>]
Response(data) == [status |-> "response", data |-> data]

\* what the external search does when it is called: it raises or it answers
Raises == [status |-> "raise", data |-> <<>>]

\* the search that loses its response
run_vector_search_no_return(outcome) == Null

\* chat.py 135-149: the response, or None when the rpc raised
run_vector_search(outcome) == IF outcome = Raises THEN Null ELSE outcome

\* chat.py 228-240: every task is run and its result recorded under its key;
\* outcomes maps each function name to what its search does
run_searches(searches, outcomes) ==
  [result_key \in {searches[i][2] : i \in 1..Len(searches)} |->
     LET i == CHOOSE j \in 1..Len(searches) : searches[j][2] = result_key
     IN  run_vector_search(outcomes[searches[i][1]])]

\* dict.get(key)
Get(d, k) == IF k \in DOMAIN d THEN d[k] ELSE Null

\* `response and hasattr(response, 'data') and response.data`
HasData(response) == response # Null /\ response.data # <<>>

(***************************************************************************)
(* Context assembly (chat.py 245-325)                                      *)
(***************************************************************************)
RECURSIVE Distinct(_)
\* the values of a list without repetitions, in order of first occurrence
Distinct(s) ==
  IF s = <<>> THEN <<>>
  ELSE LET rest == Distinct(SubSeq(s, 1, Len(s) - 1))
       IN  IF InSeq(s[Len(s)], rest) THEN rest ELSE Append(rest, s[Len(s)])

RECURSIVE Flatten(_)
Flatten(ss) == IF ss = <<>> THEN <<>> ELSE ss[1] \o Flatten(Tail(ss))

RECURSIVE InsertByPrice(_, _)
InsertByPrice(x, s) ==
  IF s = <<>> THEN <<x>>
  ELSE IF x.price < s[1].price THEN <<x>> \o s
  ELSE <<s[1]>> \o InsertByPrice(x, Tail(s))

RECURSIVE SortByPrice(_)
\* chat.py 287: prices.sort(key=lambda x: x.get('price', 0))
SortByPrice(s) ==
  IF s = <<>> THEN <<>> ELSE InsertByPrice(s[Len(s)], SortByPrice(SubSeq(s, 1, Len(s) - 1)))

\* chat.py 289: f"${price:.2f}", the price held in cents
FormatPrice(cents) ==
  <<"$">> \o IntToStr(cents \div 100) \o <<".">>
    \o <<Digits[((cents % 100) \div 10) + 1], Digits[(cents % 10) + 1]>>

\* chat.py 249-267: the failures, grouped by component
FailureSection(failures_response) ==
  IF ~HasData(failures_response) THEN <<>>
  ELSE LET data == failures_response.data
           names == Distinct([i \in 1..Len(data) |-> data[i].component_name])
           group(n) == SelectSeq(data, LAMBDA f : f.component_name = n)
       IN  IF names = <<>> THEN << <<"Potential Issues: None found">> >>
           ELSE << <<"Potential Issues:">> >>
                \o Flatten([k \in 1..Len(names) |->
                     << <<"- ", names[k], ":">> >>
                     \o [j \in 1..Len(group(names[k])) |->
                           <<"  * ", group(names[k])[j].description>>]])

\* chat.py 270-293: the part prices, grouped by part name, cheapest first
PriceSection(part_prices_response) ==
  IF ~HasData(part_prices_response) THEN <<>>
  ELSE LET data == part_prices_response.data
           names == Distinct([i \in 1..Len(data) |-> data[i].part_name])
           group(n) == SortByPrice(SelectSeq(data, LAMBDA p : p.part_name = n))
       IN  IF names = <<>> THEN << <<"\nRelevant Parts with Pricing: None found">> >>
           ELSE << <<"\nRelevant Parts with Pricing:">> >>
                \o Flatten([k \in 1..Len(names) |->
                     << <<"- ", names[k], ":">> >>
                     \o [j \in 1..Len(group(names[k])) |->
                           <<"  * Price: ">> \o FormatPrice(group(names[k])[j].price)]
                     \o (IF group(names[k])[1].description # ""
                           THEN << <<"  Description: ", group(names[k])[1].description>> >>
                           ELSE <<>>)])

\* the test that forgets the part prices
BarePartsWantedAlways(parts_response, part_prices_response) == HasData(parts_response)

\* chat.py 298: parts found and no part price found
BarePartsWanted(parts_response, part_prices_response) ==
  HasData(parts_response) /\ ~HasData(part_prices_response)

\* chat.py 296-301: the parts, when no part price was found
PartsSection(parts_response, part_prices_response) ==
  IF BarePartsWanted(parts_response, part_prices_response)
    THEN << <<"\nRelevant Parts:">> >>
         \o [i \in 1..Len(parts_response.data) |->
               <<"- ", parts_response.data[i].part_name, " (Part #",
                 parts_response.data[i].part_number, "): ",
                 parts_response.data[i].description>>]
    ELSE <<>>

\* chat.py 304-308
ComponentsSection(components_response) ==
  IF HasData(components_response)
    THEN << <<"\nRelevant Components:">> >>
         \o [i \in 1..Len(components_response.data) |->
               <<"- ", components_response.data[i].component_name, ": ",
                 components_response.data[i].description>>]
    ELSE <<>>

\* chat.py 311-315
VehicleTypesSection(vehicle_types_response) ==
  IF HasData(vehicle_types_response)
    THEN << <<"\nRelevant Vehicle Types:">> >>
         \o [i \in 1..Len(vehicle_types_response.data) |->
               <<"- ", vehicle_types_response.data[i].year, " ",
                 vehicle_types_response.data[i].make, " ",
                 vehicle_types_response.data[i].model>>]
    ELSE <<>>

\* chat.py 318-322
DocumentationSection(documentation_response) ==
  IF HasData(documentation_response)
    THEN << <<"\nRelevant Documentation:">> >>
         \o [i \in 1..Len(documentation_response.data) |->
               <<"- ", documentation_response.data[i].section_title, ":\n",
                 documentation_response.data[i].content>>]
    ELSE <<>>

\* the sections with the documentation moved in front of the components
context_parts_documentation_first(query_type, search_results) ==
  (IF InSeq(T_mechanic, query_type) \/ InSeq(T_diagnostic, query_type)
        \/ InSeq(T_symptom, query_type)
     THEN FailureSection(Get(search_results, "failures_response"))
          \o PriceSection(Get(search_results, "part_prices_response"))
     ELSE <<>>)
  \o PartsSection(Get(search_results, "parts_response"),
                  Get(search_results, "part_prices_response"))
  \o DocumentationSection(Get(search_results, "documentation_response"))
  \o ComponentsSection(Get(search_results, "components_response"))
  \o VehicleTypesSection(Get(search_results, "vehicle_types_response"))

\* chat.py 245-322: context_parts
context_parts(query_type, search_results) ==
  (IF InSeq(T_mechanic, query_type) \/ InSeq(T_diagnostic, query_type)
        \/ InSeq(T_symptom, query_type)
     THEN FailureSection(Get(search_results, "failures_response"))
          \o PriceSection(Get(search_results, "part_prices_response"))
     ELSE <<>>)
  \o PartsSection(Get(search_results, "parts_response"),
                  Get(search_results, "part_prices_response"))
  \o ComponentsSection(Get(search_results, "components_response"))
  \o VehicleTypesSection(Get(search_results, "vehicle_types_response"))
  \o DocumentationSection(Get(search_results, "documentation_response"))

\* chat.py 325: "\n".join(context_parts)
build_context(query_type, search_results) ==
  Join(<<"\n">>, context_parts(query_type, search_results))

\* what each similarity search may answer with
SampleData(function_name) ==
  CASE function_name = "match_parts" ->
         << [part_name |-> "Brake Pad", part_number |-> "BP-100",
             description |-> "Front brake pad"] >>
    [] function_name = "match_components" ->
         << [component_name |-> "Brakes", description |-> "Brake system"] >>
    [] function_name = "match_vehicle_types" ->
         << [year |-> "2015", make |-> "Honda", model |-> "Civic"] >>
    [] function_name = "match_part_prices" ->
         << [part_name |-> "Brake Pad", price |-> 4550, description |-> "Premium pad"],
            [part_name |-> "Brake Pad", price |-> 2500, description |-> "Economy pad"] >>
    [] function_name = "match_failure_descriptions" ->
         << [component_name |-> "Brakes", description |-> "Grinding noise"] >>
    [] function_name = "match_documentation" ->
         << [section_title |-> "Overview", content |-> "System overview"] >>

(***************************************************************************)
(* search_database_for_context (chat.py 151-332)                           *)
(***************************************************************************)
SearchNames(searches) == [i \in 1..Len(searches) |-> searches[i][1]]

\* chat.py 151-332: one call at time current_time on the two caches. provider and
\* outcomes are what the embedding provider and the similarity searches would do if
\* called. The result names the path taken, the returned string, both caches
\* afterwards and the effects in order.
search_database_for_context(query, provider, outcomes, ecache, ccache, current_time) ==
  IF Simple[query]
    THEN [path |-> "simple", ret |-> SimpleReplyText,
          embedding_cache |-> ecache, context_cache |-> ccache, trace |-> <<>>,
          query_embedding |-> None,
          query_type_key |-> <<>>, cached |-> None, search_results |-> Empty]
  ELSE
  Bind(get_embedding(query, ecache, current_time, provider), LAMBDA e :
    IF ~Truthy(e.ret)
      THEN [path |-> "no_embedding", ret |-> <<>>,
            embedding_cache |-> e.cache, context_cache |-> ccache, trace |-> e.trace,
            query_embedding |-> e.ret,
            query_type_key |-> <<>>, cached |-> None, search_results |-> Empty]
    ELSE
    Bind(QueryTypes[query], LAMBDA query_type :
    Bind(QueryTypeKeys[query_type], LAMBDA query_type_key :
    Bind(get_cached_context(query_type_key, ccache, current_time), LAMBDA cached_context :
    Bind(e.trace \o <<"detect_query_type", "context_cache_read">>, LAMBDA lookup :
      IF Truthy(cached_context)
        THEN [path |-> "cached", ret |-> cached_context.value,
              embedding_cache |-> e.cache, context_cache |-> ccache, trace |-> lookup,
              query_embedding |-> e.ret,
              query_type_key |-> query_type_key, cached |-> cached_context,
              search_results |-> Empty]
      ELSE
      Bind(searches_to_run(query_type, IsDocumentation[query]), LAMBDA searches :
      Bind(run_searches(searches, outcomes), LAMBDA search_results :
      Bind(build_context(query_type, search_results), LAMBDA context :
        [path |-> "retrieved", ret |-> context,
         embedding_cache |-> e.cache,
         context_cache |-> cache_context(query_type_key, context, ccache, current_time),
         trace |-> lookup \o SearchNames(searches) \o <<"context_cache_write">>,
         query_embedding |-> e.ret,
         query_type_key |-> query_type_key, cached |-> cached_context,
         search_results |-> search_results]))))))))

(***************************************************************************)
(* Specification of the chat retrieval: calls of search_database_for_context*)
(* by one caller, at instants around the context cache expiry              *)
(***************************************************************************)
Vectors == {<<k>> : k \in 1..NumVectors}

\* the embedding provider raises (None) or answers with a vector
ProviderOutcomes == {None} \cup {Some(v) : v \in Vectors}

OutcomeKinds == {"raise", "empty", "rows"}

OutcomeOf(function_name, kind) ==
  CASE kind = "raise" -> Raises
    [] kind = "empty" -> Response(<<>>)
    [] kind = "rows" -> Response(SampleData(function_name))

AllFunctionNames ==
  {"match_parts", "match_components", "match_vehicle_types", "match_part_prices",
   "match_failure_descriptions", "match_documentation"}

\* the searches a call of query issues, were it to reach the dispatch
SelectedNames(query) == Range(SearchNames(searches_to_run(QueryTypes[query], IsDocumentation[query])))

\* every way the searches of one call may each raise, answer empty or answer rows
AnyOutcomes(query) ==
  {[f \in SelectedNames(query) |-> OutcomeOf(f, kinds[f])] :
     kinds \in [SelectedNames(query) -> OutcomeKinds]}

\* the searches of one call all raise, all answer empty or all answer rows
UniformOutcomes(query) ==
  {[f \in SelectedNames(query) |-> OutcomeOf(f, kind)] : kind \in OutcomeKinds}

\* the record of a store by get_embedding
StoredAfter(text, trace, ret) ==
  IF InSeq("embedding_cache_write", trace)
    THEN Put(stores, text, [embedding |-> ret.value, time |-> now])
    ELSE stores

\* the context cache entry a call of query would look up, as it is before the call
EntryBefore(query) ==
  IF Simple[query] THEN None
  ELSE Bind(QueryTypeKeys[QueryTypes[query]], LAMBDA query_type_key :
         IF query_type_key \in DOMAIN context_cache
           THEN Some(context_cache[query_type_key])
           ELSE None)

\* the state after a call of query that went as r says
Returned(query, outcomes, found, r) ==
  /\ embedding_cache' = r.embedding_cache
  /\ context_cache' = r.context_cache
  /\ last' = [op |-> "search", query |-> query, time |-> now,
              path |-> r.path, ret |-> r.ret, trace |-> r.trace,
              query_type_key |-> r.query_type_key, found |-> found, cached |-> r.cached,
              search_results |-> r.search_results, outcomes |-> outcomes]
  /\ stores' = StoredAfter(query, r.trace, r.query_embedding)
  /\ calls' = calls + 1
  /\ UNCHANGED <<now, cls, keyrun, cum, moreVars>>

\* the outcomes the searches of one call of query are drawn from
OutcomeChoices(query, independent) ==
  IF independent THEN AnyOutcomes(query) ELSE UniformOutcomes(query)

\* one call of search_database_for_context that takes the given path
SearchCall(path, queries, providers, independent) ==
  \E query \in queries, provider \in providers :
       \E outcomes \in OutcomeChoices(query, independent) :
         Bind(search_database_for_context(query, provider, outcomes,
                                          embedding_cache, context_cache, now),
              LAMBDA r :
                /\ r.path = path
                /\ path # "retrieved" =>
                     outcomes = CHOOSE o \in OutcomeChoices(query, independent) : TRUE
                /\ Returned(query, IF path = "retrieved" THEN outcomes ELSE Empty,
                            EntryBefore(query), r))

\* the queries of the chat specification, and one vector for each: the retrieval
\* never looks into the vector
SearchQueries == {Q_greeting, Q_short, Q_price, Q_price_other, Q_joke}
SearchProviderOutcomes == {None, Some(<<1>>)}

SimpleReply ==
  /\ calls < MaxCalls
  /\ SearchCall("simple", SearchQueries, SearchProviderOutcomes, FALSE)

NoEmbeddingReply ==
  /\ calls < MaxCalls
  /\ SearchCall("no_embedding", SearchQueries, SearchProviderOutcomes, FALSE)

CachedReply ==
  /\ calls < MaxCalls
  /\ SearchCall("cached", SearchQueries, SearchProviderOutcomes, FALSE)

RetrievedReply ==
  /\ calls < MaxCalls
  /\ SearchCall("retrieved", SearchQueries, SearchProviderOutcomes, FALSE)

\* the instants the clock is read at: the start, and around the context expiry
Instants ==
  {0} \cup ((CONTEXT_CACHE_EXPIRY - Slack)..(CONTEXT_CACHE_EXPIRY + Slack))

Tick ==
  /\ \E t \in Instants : t > now /\ now' = t
  /\ UNCHANGED <<embedding_cache, context_cache, last, calls, stores, cls, keyrun, cum, moreVars>>

Init ==
  /\ ChatIdle
  /\ MoreIdle
  /\ cls = ClsIdle
  /\ keyrun = KeyIdle
  /\ cum = CumIdle

Next == SimpleReply \/ NoEmbeddingReply \/ CachedReply \/ RetrievedReply \/ Tick

Spec == Init /\ [][Next]_vars

(***************************************************************************)
(* Specification of the dispatch: calls on cold caches, every search       *)
(* raising, answering empty or answering rows independently                *)
(***************************************************************************)
DispatchQueries ==
  {Q_short, Q_price, Q_price_other, Q_joke, Q_civic, Q_database, Q_year_price}

DispatchRetrieved ==
  /\ calls < MaxDispatch
  /\ SearchCall("retrieved", DispatchQueries, SearchProviderOutcomes, TRUE)

DispatchOther ==
  /\ calls < MaxDispatch
  /\ \E path \in {"simple", "no_embedding", "cached"} :
       SearchCall(path, DispatchQueries, SearchProviderOutcomes, TRUE)

NextDispatch == DispatchRetrieved \/ DispatchOther

SpecDispatch == Init /\ [][NextDispatch]_vars

(***************************************************************************)
(* Specification of the embedding cache: calls of get_embedding by one     *)
(* caller, at instants around the embedding cache expiry                   *)
(***************************************************************************)
EmbeddingTexts == {Q_price, Q_price_variant, Q_joke}

GetEmbedding ==
  /\ calls < MaxCalls
  /\ \E text \in EmbeddingTexts, provider \in ProviderOutcomes :
       Bind(get_embedding(text, embedding_cache, now, provider), LAMBDA e :
         /\ embedding_cache' = e.cache
         /\ last' = [op |-> "get_embedding", query |-> text, time |-> now,
                     ret |-> e.ret, trace |-> e.trace]
         /\ stores' = StoredAfter(text, e.trace, e.ret)
         /\ calls' = calls + 1
         /\ UNCHANGED <<now, context_cache, cls, keyrun, cum, moreVars>>)

EmbeddingInstants ==
  {0} \cup ((EMBEDDING_CACHE_EXPIRY - Slack)..(EMBEDDING_CACHE_EXPIRY + Slack))

TickEmbedding ==
  /\ \E t \in EmbeddingInstants : t > now /\ now' = t
  /\ UNCHANGED <<embedding_cache, context_cache, last, calls, stores, cls, keyrun, cum, moreVars>>

NextEmbedding == GetEmbedding \/ TickEmbedding

SpecEmbedding == Init /\ [][NextEmbedding]_vars

(***************************************************************************)
(* Properties of the dispatch (SpecDispatch)                               *)
(***************************************************************************)
\* chat.py 195-219: the key each search is recorded under
ResultKeyOf(function_name) ==
  CASE function_name = "match_parts" -> "parts_response"
    [] function_name = "match_components" -> "components_response"
    [] function_name = "match_vehicle_types" -> "vehicle_types_response"
    [] function_name = "match_part_prices" -> "part_prices_response"
    [] function_name = "match_failure_descriptions" -> "failures_response"
    [] function_name = "match_documentation" -> "documentation_response"

\* the last call ran the dispatch
Dispatched == last.op = "search" /\ last.path = "retrieved"

\* C1: whichever of the selected searches raise, every selected search is issued, a
\* raising search is recorded as null, every other search has its own response
\* recorded, and the call completes: it stores and returns a context.
C1_ErrorIsolation ==
  Dispatched =>
    /\ \A f \in DOMAIN last.outcomes :
         /\ InSeq(f, last.trace)
         /\ ResultKeyOf(f) \in DOMAIN last.search_results
         /\ IF last.outcomes[f] = Raises
              THEN last.search_results[ResultKeyOf(f)] = Null
              ELSE /\ last.search_results[ResultKeyOf(f)] # Null
                   /\ last.search_results[ResultKeyOf(f)] = last.outcomes[f]
    /\ last.trace[Len(last.trace)] = "context_cache_write"
    /\ last.query_type_key \in DOMAIN context_cache
    /\ last.ret = context_cache[last.query_type_key].context

\* three searches selected, exactly one raises, the other two answer rows that
\* reach the returned context
C1_OneOfThreeRaises ==
  /\ Dispatched
  /\ Cardinality(DOMAIN last.outcomes) = 3
  /\ Cardinality({f \in DOMAIN last.outcomes : last.outcomes[f] = Raises}) = 1
  /\ \A f \in DOMAIN last.outcomes :
       last.outcomes[f] # Raises => HasData(last.search_results[ResultKeyOf(f)])
  /\ last.ret # <<>>

(***************************************************************************)
(* Properties of the embedding cache (SpecEmbedding)                       *)
(***************************************************************************)
\* two texts with the same words, case aside
SameWords(t1, t2) == Split(Lower(t1)) = Split(Lower(t2))

\* this step is a call of get_embedding
EmbeddingCalled == calls' = calls + 1 /\ last'.op = "get_embedding"

\* C2: a call of get_embedding for a text made less than EMBEDDING_CACHE_EXPIRY
\* seconds after a call stored a vector for a text of the same words returns that
\* vector and does not call the embedding provider.
C2_EmbeddingReuse ==
  [][EmbeddingCalled =>
       \A t1 \in DOMAIN stores :
         (SameWords(t1, last'.query)
            /\ last'.time - stores[t1].time < EMBEDDING_CACHE_EXPIRY)
         => /\ last'.ret = Some(stores[t1].embedding)
            /\ ~InSeq("embedding_provider_call", last'.trace)]_vars

\* the text in other case and spacing is served, one second before the expiry, the
\* vector stored for the first text
C2_VariantServed ==
  /\ last.op = "get_embedding"
  /\ last.query = Q_price_variant
  /\ last.time = EMBEDDING_CACHE_EXPIRY - 1
  /\ Q_price \in DOMAIN stores
  /\ stores[Q_price].time = 0
  /\ Q_price_variant \notin DOMAIN stores
  /\ last.ret = Some(stores[Q_price].embedding)
  /\ last.trace = <<"embedding_cache_read">>

(***************************************************************************)
(* Properties of the chat retrieval (Spec)                                 *)
(***************************************************************************)
EmbeddingEvents ==
  {"embedding_cache_read", "embedding_provider_call", "embedding_cache_write"}

\* the last call was made with an unexpired context entry for its tag signature
FoundUnexpired ==
  /\ last.op = "search"
  /\ ~last.found.is_none
  /\ last.time - last.found.value.timestamp < CONTEXT_CACHE_EXPIRY

\* C3: a call made while an unexpired context entry exists for the tag signature of
\* its query returns that entry's context, having neither looked an embedding up,
\* nor called the embedding provider, nor issued a similarity search.
C3_ContextReadFirst ==
  FoundUnexpired =>
    /\ last.ret = last.found.value.context
    /\ \A i \in 1..Len(last.trace) :
         last.trace[i] \notin EmbeddingEvents \cup AllFunctionNames

\* the last call looked the context cache up and an entry was there
LookedUpEntry ==
  /\ last.op = "search"
  /\ last.path \in {"cached", "retrieved"}
  /\ ~last.found.is_none

\* C4: a lookup made less than CONTEXT_CACHE_EXPIRY seconds after the entry was
\* written returns the entry's context unchanged (and a non-empty context is what
\* the call returns, the entry staying as it is); a lookup made more than
\* CONTEXT_CACHE_EXPIRY seconds after it misses, the context is recomputed and the
\* entry overwritten with the new context and the time of the call.
C4_ContextExpiry ==
  LookedUpEntry =>
    LET entry == last.found.value
        age == last.time - entry.timestamp
    IN  /\ age < CONTEXT_CACHE_EXPIRY =>
             /\ last.cached = Some(entry.context)
             /\ entry.context # <<>> =>
                  /\ last.path = "cached"
                  /\ last.ret = entry.context
                  /\ context_cache[last.query_type_key] = entry
        /\ age > CONTEXT_CACHE_EXPIRY =>
             /\ last.cached.is_none
             /\ last.path = "retrieved"
             /\ context_cache[last.query_type_key] =
                  [context |-> last.ret, timestamp |-> last.time]

\* an entry written at 0 is found expired one second after the expiry, and
\* overwritten
C4_RecomputedAfterExpiry ==
  /\ LookedUpEntry
  /\ last.found.value.timestamp = 0
  /\ last.found.value.context # <<>>
  /\ last.time = CONTEXT_CACHE_EXPIRY + 1
  /\ last.path = "retrieved"
  /\ context_cache[last.query_type_key].timestamp = last.time

\* chat.py 167-169 read on the text: a greeting, or at most two words
GreetingOrShort(query) ==
  \/ \E i \in 1..Len(simple_greetings) : simple_greetings[i] = Strip(Lower(query))
  \/ Len(Split(query)) <= 2

\* this step is a call of search_database_for_context
SearchCalled == calls' = calls + 1 /\ last'.op = "search"

\* C9: a call for a greeting or for a query of at most two words returns the fixed
\* reply with no effect at all: no cache read, no provider call, no classification,
\* no search, and both caches as they were.
C9_SimpleQueryBypass ==
  [][(SearchCalled /\ GreetingOrShort(last'.query)) =>
       /\ last'.ret = SimpleReplyText
       /\ last'.trace = <<>>
       /\ embedding_cache' = embedding_cache
       /\ context_cache' = context_cache]_vars

\* a two-word query answered with the fixed reply while both caches hold entries
C9_ShortQueryOnWarmCaches ==
  /\ last.op = "search"
  /\ last.query = Q_short
  /\ last.ret = SimpleReplyText
  /\ last.trace = <<>>
  /\ embedding_cache # Empty
  /\ context_cache # Empty

(***************************************************************************)
(* Properties of the cumulative timeline (SpecCumulative)                  *)
(***************************************************************************)
REq(a, b) == a[1] * b[2] = b[1] * a[2]

\* the cumulative probability recorded for the i-th horizon in ascending order
CumulativeAt(i) == cum.cumulative_predictions[cum.sorted_windows[i]].probability

\* the point probability of the i-th horizon in ascending order
PointAt(i) == cum.predictions[cum.sorted_windows[i]].probability

\* the horizons whose cumulative probability is recorded
Recorded == IF cum.pc \in {"loop", "done"} THEN 1..(cum.i - 1) ELSE {}

\* C5: every cumulative probability recorded lies within [0,1].
C5_WithinUnitInterval ==
  \A i \in Recorded : RLeq(Zero, CumulativeAt(i)) /\ RLeq(CumulativeAt(i), One)

\* C6: the cumulative probability of a horizon is at least that of the horizon
\* before it, whatever the point probabilities.
C6_NonDecreasing ==
  \A i \in Recorded : i > 1 => RLeq(CumulativeAt(i - 1), CumulativeAt(i))

\* three horizons whose point probabilities fall while the cumulative ones rise
C6_FallingPointProbabilities ==
  /\ cum.pc = "done"
  /\ Len(cum.sorted_windows) = 3
  /\ RLess(PointAt(3), PointAt(2)) /\ RLess(PointAt(2), PointAt(1))
  /\ RLess(Zero, PointAt(3))
  /\ RLess(CumulativeAt(1), CumulativeAt(2)) /\ RLess(CumulativeAt(2), CumulativeAt(3))

\* C7: each cumulative probability is C_prev + (1 - C_prev) * p_point, with C_prev
\* the cumulative probability of the horizon before (0 for the first).
C7_SurvivalFormula ==
  \A i \in Recorded :
    LET previous == IF i = 1 THEN Zero ELSE CumulativeAt(i - 1)
    IN  REq(CumulativeAt(i), RAdd(previous, RMul(RSub(One, previous), PointAt(i))))

(***************************************************************************)
(* Properties of the classifier (SpecClassify)                             *)
(***************************************************************************)
\* words of the vocabulary that no rule of the classifier knows
NeutralWords == {<<"h","i">>, <<"j","o","k","e">>}

\* the query is made of neutral words only (the empty query is)
MatchesNoRule(query) == \A w \in Range(Split(query)) : w \in NeutralWords

\* C8: detect_query_type returns a non-empty list for every query, and exactly
\* <<documentation>> for the empty query and for a query no rule matches.
C8_NeverEmpty ==
  cls.pc = "done" =>
    /\ cls.query_types # <<>>
    /\ MatchesNoRule(cls.query) => cls.query_types = <<T_documentation>>

\* the empty query classified as documentation
C8_EmptyQueryDefault ==
  /\ cls.pc = "done"
  /\ cls.query = <<>>
  /\ cls.query_types = <<T_documentation>>

(***************************************************************************)
(* Properties of the context cache key (SpecKey)                           *)
(***************************************************************************)
\* C10: two tag sequences have the same key exactly when they hold the same tags.
C10_KeyOfTagSet ==
  keyrun.pc = "done" =>
    ((Range(keyrun.a) = Range(keyrun.b)) <=> (keyrun.key_a = keyrun.key_b))

\* pricing,part and part,pricing under one key
C10_PermutationSameKey ==
  /\ keyrun.pc = "done"
  /\ keyrun.a = <<T_pricing, T_part>>
  /\ keyrun.b = <<T_part, T_pricing>>
  /\ keyrun.key_a = keyrun.key_b
  /\ keyrun.key_a = T_part \o <<"+">> \o T_pricing

(***************************************************************************)
(* Specification of the context assembly: build_context on one tag list    *)
(* and one set of search answers, collected in two different orders        *)
(***************************************************************************)
\* tag lists the assembly is run on; the last ones hold tags the selection knows
\* and the classifier never produces
AssemblyTagLists ==
  { <<T_mechanic>>,
    <<T_mechanic, T_pricing>>,
    <<T_pricing, T_part>>,
    <<T_part, T_documentation>>,
    <<T_documentation>>,
    <<T_mechanic, T_diagnostic, T_symptom, T_pricing, T_part, T_documentation>>,
    <<T_vehicle, T_component, T_cost, T_problem>>,
    <<T_mechanic, T_pricing, T_make, T_problem, T_documentation>> }

Reverse(s) == [i \in 1..Len(s) |-> s[Len(s) + 1 - i]]

\* the sequence with its first element moved to the end
Rotate(s) == IF s = <<>> THEN s ELSE Tail(s) \o <<s[1]>>

\* what a search answers: it raises, answers no rows, or answers rows
AnswersOf(searches) ==
  {[f \in Range(SearchNames(searches)) |-> OutcomeOf(f, kinds[f])] :
     kinds \in [Range(SearchNames(searches)) -> OutcomeKinds]}

InitAssemble ==
  /\ ChatIdle
  /\ cls = ClsIdle /\ keyrun = KeyIdle /\ cum = CumIdle
  /\ tl = TlIdle /\ sweep = SweepIdle /\ race = RaceIdle /\ run = RunIdle /\ LateIdle
  /\ \E query_type \in AssemblyTagLists :
       \E outcomes \in AnswersOf(searches_to_run(query_type, FALSE)) :
         \E other \in {Reverse(searches_to_run(query_type, FALSE)),
                       Rotate(searches_to_run(query_type, FALSE))} :
           asm = [pc |-> "start", query_type |-> query_type, outcomes |-> outcomes,
                  searches |-> searches_to_run(query_type, FALSE), other |-> other,
                  context |-> <<>>, other_context |-> <<>>]

\* chat.py 228-325: the results are collected and the context is assembled from
\* them, once with the searches in the order of dispatch, and once with the
\* searches in the other order and the tags listed backwards
Assemble ==
  /\ asm.pc = "start"
  /\ asm' = [asm EXCEPT
               !.pc = "done",
               !.context = build_context(asm.query_type,
                                         run_searches(asm.searches, asm.outcomes)),
               !.other_context = build_context(Reverse(asm.query_type),
                                               run_searches(asm.other, asm.outcomes))]
  /\ UNCHANGED <<chatVars, lateVars, cls, keyrun, cum, tl, sweep, race, run>>

NextAssemble == Assemble

SpecAssemble == InitAssemble /\ [][NextAssemble]_vars

(***************************************************************************)
(* Properties of the context assembly (SpecAssemble)                       *)
(***************************************************************************)
\* the search was run and answered at least one row
Answered(function_name) ==
  /\ function_name \in DOMAIN asm.outcomes
  /\ asm.outcomes[function_name].status = "response"
  /\ asm.outcomes[function_name].data # <<>>

\* the section with this header is in the assembled context
HasSection(header) == InSeq(header, asm.context)

\* C11: the bare parts section is in the context only if the parts search
\* answered rows and the part price search answered none; it is absent whenever
\* the part price search answered rows; and a price section comes before it.
C11_BarePartsOnlyWithoutPrices ==
  asm.pc = "done" =>
    /\ HasSection("\nRelevant Parts:") =>
         Answered("match_parts") /\ ~Answered("match_part_prices")
    /\ Answered("match_part_prices") => ~HasSection("\nRelevant Parts:")
    /\ (HasSection("\nRelevant Parts with Pricing:") /\ HasSection("\nRelevant Parts:")) =>
         IndexOf("\nRelevant Parts with Pricing:", asm.context)
           < IndexOf("\nRelevant Parts:", asm.context)

\* parts listed bare although the part price search ran: it answered no rows
C11_BarePartsAfterEmptyPrices ==
  /\ asm.pc = "done"
  /\ HasSection("\nRelevant Parts:")
  /\ "match_part_prices" \in DOMAIN asm.outcomes
  /\ asm.outcomes["match_part_prices"] = Response(<<>>)

\* chat.py 246-322: the section headers, in the order of the code
SectionHeaders ==
  <<"Potential Issues:", "\nRelevant Parts with Pricing:", "\nRelevant Parts:",
    "\nRelevant Components:", "\nRelevant Vehicle Types:", "\nRelevant Documentation:">>

\* C17: the assembled context depends on the set of tags and on the answer of
\* each search only: collecting the same answers in another order, with the
\* tags listed in another order, gives the same context, and the sections in it
\* are in the order failures, priced parts, bare parts, components, vehicle
\* types, documentation.
C17_FixedSectionOrder ==
  asm.pc = "done" =>
    /\ asm.context = asm.other_context
    /\ \A i \in 1..Len(SectionHeaders), j \in 1..Len(SectionHeaders) :
         (i < j /\ HasSection(SectionHeaders[i]) /\ HasSection(SectionHeaders[j])) =>
           IndexOf(SectionHeaders[i], asm.context) < IndexOf(SectionHeaders[j], asm.context)

\* four sections assembled from answers collected in two different orders
C17_FourSectionsTwoOrders ==
  /\ asm.pc = "done"
  /\ asm.other # asm.searches
  /\ HasSection("Potential Issues:")
  /\ HasSection("\nRelevant Components:")
  /\ HasSection("\nRelevant Vehicle Types:")
  /\ HasSection("\nRelevant Documentation:")

(***************************************************************************)
(* Properties of get_embedding on a provider failure (SpecEmbedding)       *)
(***************************************************************************)
\* C13: a call of get_embedding whose provider call fails leaves the embedding
\* cache as it was: no entry added, none removed (the expired entry of the same
\* key stays), no vector and no timestamp changed.
C13_FailureLeavesCache ==
  [][(EmbeddingCalled /\ InSeq("embedding_provider_call", last'.trace)
        /\ last'.ret = None)
       => embedding_cache' = embedding_cache]_vars

\* the provider failed for a text whose entry had expired, and the expired entry
\* is still in the cache
C13_ExpiredEntryKept ==
  /\ last.op = "get_embedding"
  /\ last.ret = None
  /\ InSeq("embedding_provider_call", last.trace)
  /\ EmbeddingKeys[last.query] \in DOMAIN embedding_cache
  /\ last.time - embedding_cache[EmbeddingKeys[last.query]].timestamp > EMBEDDING_CACHE_EXPIRY

(***************************************************************************)
(* Specification of one call of search_database_for_context, step by step: *)
(* the searches are run one after the other, a search may raise, answer,   *)
(* answer rows that are not rows, or never answer, and a cache access may  *)
(* raise                                                                   *)
(***************************************************************************)
\* rows that are not dicts: row.get raises AttributeError
MalformedRows == << [not_a_dict |-> "row"] >>

IsMalformed(response) == response.status = "response" /\ response.data = MalformedRows

RunOutcomeKinds == {"raise", "empty", "rows", "malformed", "hang"}

\* what the search answers when it answers
RunOutcomeOf(function_name, kind) ==
  IF kind = "malformed" THEN Response(MalformedRows) ELSE OutcomeOf(function_name, kind)

\* where a cache access raises, if it does
CacheFaults == {"none", "lookup", "store"}

RunQueries == {Q_short, Q_price, Q_database, Q_joke}

\* the result of the body of the try statement: a value returned or an
\* exception raised
Returns(value) == [raised |-> FALSE, value |-> value]
Raised == [raised |-> TRUE, value |-> <<>>]

\* a function without the handler: the exception goes on to the caller
outer_except_missing(result) == result

\* chat.py 330-332: except Exception: print the error, return ""
outer_except(result) == IF result.raised THEN Returns(<<>>) ELSE result

\* chat.py 245-322: the assembly iterates the rows of an answer and calls
\* row.get on each, which raises on a row that is not a dict
assembly_raises(query_type, search_results) ==
  \/ /\ InSeq(T_mechanic, query_type) \/ InSeq(T_diagnostic, query_type)
          \/ InSeq(T_symptom, query_type)
     /\ \/ IsMalformed(Get(search_results, "failures_response"))
        \/ IsMalformed(Get(search_results, "part_prices_response"))
  \/ /\ IsMalformed(Get(search_results, "parts_response"))
     /\ BarePartsWanted(Get(search_results, "parts_response"),
                        Get(search_results, "part_prices_response"))
  \/ IsMalformed(Get(search_results, "components_response"))
  \/ IsMalformed(Get(search_results, "vehicle_types_response"))
  \/ IsMalformed(Get(search_results, "documentation_response"))

InitRun ==
  /\ ChatIdle
  /\ cls = ClsIdle /\ keyrun = KeyIdle /\ cum = CumIdle
  /\ asm = AsmIdle /\ tl = TlIdle /\ sweep = SweepIdle /\ race = RaceIdle /\ LateIdle
  /\ \E query \in RunQueries, provider \in SearchProviderOutcomes, fault \in CacheFaults :
       \E kinds \in [SelectedNames(query) -> RunOutcomeKinds] :
         run = [pc |-> "called", query |-> query, provider |-> provider,
                fault |-> fault, kinds |-> kinds, query_type |-> <<>>,
                query_type_key |-> <<>>, tasks |-> <<>>, next |-> 1, log |-> <<>>,
                search_results |-> Empty, ret |-> Returns(<<>>),
                response |-> [sent |-> FALSE]]

\* the call is over with this result of the body
Return(result) ==
  run' = [run EXCEPT !.pc = "returned", !.ret = outer_except(result)]

\* chat.py 163-226: the body up to the creation of the coroutines; creating a
\* coroutine runs none of its code
CreateTasks ==
  /\ run.pc = "called"
  /\ UNCHANGED <<now, last, calls, stores, context_cache>>
  /\ IF Simple[run.query]
       THEN Return(Returns(SimpleReplyText)) /\ UNCHANGED embedding_cache
       ELSE Bind(get_embedding(run.query, embedding_cache, now, run.provider), LAMBDA e :
              /\ embedding_cache' = e.cache
              /\ IF ~Truthy(e.ret) THEN Return(Returns(<<>>))
                 ELSE IF run.fault = "lookup" THEN Return(Raised)
                 ELSE Bind(QueryTypes[run.query], LAMBDA query_type :
                        Bind(get_cached_context(QueryTypeKeys[query_type], context_cache, now),
                             LAMBDA cached_context :
                          IF Truthy(cached_context)
                            THEN Return(Returns(cached_context.value))
                            ELSE Bind(searches_to_run(query_type, IsDocumentation[run.query]),
                                      LAMBDA searches :
                                   run' = [run EXCEPT
                                     !.pc = "collect",
                                     !.query_type = query_type,
                                     !.query_type_key = QueryTypeKeys[query_type],
                                     !.tasks = searches,
                                     !.log = [i \in 1..Len(searches) |->
                                                <<"create", searches[i][1]>>]]))))
  /\ UNCHANGED <<lateVars, cls, keyrun, cum, asm, tl, sweep, race>>

\* chat.py 236-238: loop.run_until_complete(task) waits for the task; only now
\* does the coroutine run, and its first statement issues the request
RunUntilComplete ==
  /\ run.pc = "collect"
  /\ run.next <= Len(run.tasks)
  /\ run' = [run EXCEPT
               !.pc = "searching",
               !.log = @ \o << <<"wait", run.tasks[run.next][1]>>,
                               <<"start", run.tasks[run.next][1]>> >>]
  /\ UNCHANGED <<chatVars, lateVars, cls, keyrun, cum, asm, tl, sweep, race>>

\* chat.py 137-149 and 238-240: the request answers or raises, and the result
\* is stored under its key; a request that never answers leaves the loop here
SearchCompletes ==
  /\ run.pc = "searching"
  /\ run.kinds[run.tasks[run.next][1]] # "hang"
  /\ run' = [run EXCEPT
               !.pc = "collect",
               !.next = @ + 1,
               !.log = Append(@, <<"done", run.tasks[run.next][1]>>),
               !.search_results =
                  Put(@, run.tasks[run.next][2],
                      run_vector_search(RunOutcomeOf(run.tasks[run.next][1],
                                                     run.kinds[run.tasks[run.next][1]])))]
  /\ UNCHANGED <<chatVars, lateVars, cls, keyrun, cum, asm, tl, sweep, race>>

\* chat.py 243-332: the context is assembled, stored and returned
BuildContext ==
  /\ run.pc = "collect"
  /\ run.next > Len(run.tasks)
  /\ IF assembly_raises(run.query_type, run.search_results) \/ run.fault = "store"
       THEN Return(Raised) /\ UNCHANGED context_cache
       ELSE Bind(build_context(run.query_type, run.search_results), LAMBDA context :
              /\ context_cache' = cache_context(run.query_type_key, context, context_cache, now)
              /\ Return(Returns(context)))
  /\ UNCHANGED <<now, embedding_cache, last, calls, stores>>
  /\ UNCHANGED <<lateVars, cls, keyrun, cum, asm, tl, sweep, race>>

\* chat.py 441-454: generate_chat_response goes on with the value returned, and
\* adds the retrieval prompt if it is not empty
Respond ==
  /\ run.pc = "returned"
  /\ ~run.ret.raised
  /\ run' = [run EXCEPT
               !.pc = "responded",
               !.response = [sent |-> TRUE, context |-> run.ret.value,
                             retrieval_prompt |-> run.ret.value # <<>>]]
  /\ UNCHANGED <<chatVars, lateVars, cls, keyrun, cum, asm, tl, sweep, race>>

NextRun == CreateTasks \/ RunUntilComplete \/ SearchCompletes \/ BuildContext \/ Respond

SpecRun == InitRun /\ [][NextRun]_vars

(***************************************************************************)
(* Properties of one call, step by step (SpecRun)                          *)
(***************************************************************************)
\* the call is over
RunReturned == run.pc \in {"returned", "responded"}

\* a failure happened in the call: the provider failed, a cache access raised,
\* or the assembly met rows that are not rows
RunFailed ==
  /\ ~Simple[run.query]
  /\ \/ run.provider = None
     \/ run.fault = "lookup"
     \/ /\ run.next > Len(run.tasks)
        /\ run.tasks # <<>>
        /\ run.fault = "store" \/ assembly_raises(run.query_type, run.search_results)

\* C12: no exception of search_database_for_context reaches its caller: when the
\* embedding provider fails, a search raises, a search answers malformed rows or
\* a cache access raises, the call returns a string, which is empty after a
\* provider, cache or assembly failure and is the context of the searches that
\* answered otherwise, and generate_chat_response goes on with that value.
C12_NoExceptionEscapes ==
  /\ RunReturned =>
       /\ ~run.ret.raised
       /\ RunFailed => run.ret.value = <<>>
       /\ (~RunFailed /\ ~Simple[run.query]) =>
            run.ret.value = build_context(run.query_type, run.search_results)
  /\ run.pc = "returned" => ENABLED Respond
  /\ run.pc = "responded" => run.response.context = run.ret.value

\* a search raised, another answered malformed rows that the assembly read, the
\* call returned the empty string and the response went on without context
C12_MalformedRowsAnswered ==
  /\ run.pc = "responded"
  /\ \E f \in DOMAIN run.kinds : run.kinds[f] = "raise"
  /\ assembly_raises(run.query_type, run.search_results)
  /\ run.ret = Returns(<<>>)
  /\ ~run.response.retrieval_prompt

\* the position of the event in the log, 0 if it is not there
EventAt(event, function_name) ==
  IF \E i \in 1..Len(run.log) : run.log[i] = <<event, function_name>>
    THEN CHOOSE i \in 1..Len(run.log) : run.log[i] = <<event, function_name>>
    ELSE 0

\* the searches selected in the call
RunSelected == {run.tasks[i][1] : i \in 1..Len(run.tasks)}

\* C15: with two or more searches selected, when the result of a search is
\* waited for, the request of every other selected search has been started.
C15_AllStartedBeforeAnyWait ==
  (run.pc \in {"collect", "searching", "returned", "responded"}
     /\ Cardinality(RunSelected) >= 2) =>
    \A f \in RunSelected, g \in RunSelected :
      (g # f /\ EventAt("wait", f) # 0) =>
        /\ EventAt("start", g) # 0
        /\ EventAt("start", g) < EventAt("wait", f)

\* the search that never answers is the one being waited for
Stalled ==
  /\ run.pc = "searching"
  /\ run.kinds[run.tasks[run.next][1]] = "hang"

\* C16: when a search never answers, the request of every other selected search
\* has been issued and its result has been collected, wherever the stalled
\* search is in the order of dispatch.
C16_HangStallsOnlyItself ==
  Stalled =>
    \A i \in 1..Len(run.tasks) :
      i # run.next =>
        /\ EventAt("start", run.tasks[i][1]) # 0
        /\ run.tasks[i][2] \in DOMAIN run.search_results

(***************************************************************************)
(* Specification of two concurrent callers of search_database_for_context: *)
(* the caches are module globals without a lock, so the steps check, miss, *)
(* compute, write of the two callers interleave                            *)
(***************************************************************************)
Callers == {"A", "B"}

\* the clock of the race runs from 0 to MaxRaceTime
MaxRaceTime == 2

\* Q_price and Q_price_variant have the same embedding key; Q_price and
\* Q_price_other have the same query type key
RaceQueries == {Q_price, Q_price_variant, Q_price_other}

CallerIdle == [pc |-> "idle", query |-> <<>>, current_time |-> 0,
               query_embedding |-> None, ret |-> <<>>]

InitRace ==
  /\ ChatIdle
  /\ cls = ClsIdle /\ keyrun = KeyIdle /\ cum = CumIdle
  /\ asm = AsmIdle /\ tl = TlIdle /\ sweep = SweepIdle /\ run = RunIdle /\ LateIdle
  /\ race = [callers |-> [c \in Callers |-> CallerIdle], written |-> {}]

\* the caller moves on
Moves(c, caller) == race' = [race EXCEPT !.callers[c] = caller]

\* chat.py 51-61: get_embedding reads the clock, then looks the text up
EmbeddingLookup(c) ==
  /\ race.callers[c].pc = "idle"
  /\ \E query \in RaceQueries :
       Moves(c, [race.callers[c] EXCEPT
                   !.query = query,
                   !.current_time = now,
                   !.pc = IF EmbeddingCacheHit(embedding_cache, EmbeddingKeys[query], now)
                            THEN "embedded" ELSE "computing",
                   !.query_embedding =
                      IF EmbeddingCacheHit(embedding_cache, EmbeddingKeys[query], now)
                        THEN Some(embedding_cache[EmbeddingKeys[query]].embedding)
                        ELSE None])
  /\ UNCHANGED <<chatVars, lateVars, cls, keyrun, cum, asm, tl, sweep, run>>

\* chat.py 64-86 and 175-177: the provider answers and the entry is written with
\* the time read before the call, or the provider fails and the caller returns ""
EmbeddingStore(c) ==
  /\ race.callers[c].pc = "computing"
  /\ \E provider \in SearchProviderOutcomes :
       IF provider.is_none
         THEN /\ Moves(c, [race.callers[c] EXCEPT !.pc = "done", !.ret = <<>>])
              /\ UNCHANGED embedding_cache
         ELSE Bind(Put(embedding_cache, EmbeddingKeys[race.callers[c].query],
                       [embedding |-> provider.value,
                        timestamp |-> race.callers[c].current_time]),
                   LAMBDA stored :
                /\ embedding_cache' =
                     IF Cardinality(DOMAIN stored) > EMBEDDING_CACHE_LIMIT
                       THEN clean_embedding_cache(stored, now)
                       ELSE stored
                /\ Moves(c, [race.callers[c] EXCEPT
                               !.pc = "embedded", !.query_embedding = provider]))
  /\ UNCHANGED <<now, context_cache, last, calls, stores>>
  /\ UNCHANGED <<lateVars, cls, keyrun, cum, asm, tl, sweep, run>>

\* chat.py 180-189: the context cache is read under the query type key
ContextLookup(c) ==
  /\ race.callers[c].pc = "embedded"
  /\ Bind(get_cached_context(QueryTypeKeys[QueryTypes[race.callers[c].query]],
                             context_cache, now),
          LAMBDA cached_context :
            IF Truthy(cached_context)
              THEN Moves(c, [race.callers[c] EXCEPT
                               !.pc = "done", !.ret = cached_context.value])
              ELSE Moves(c, [race.callers[c] EXCEPT !.pc = "searching"]))
  /\ UNCHANGED <<chatVars, lateVars, cls, keyrun, cum, asm, tl, sweep, run>>

\* chat.py 191-328: the searches answer, the context is assembled and written
\* under the query type key with the time of the write
ContextStore(c) ==
  /\ race.callers[c].pc = "searching"
  /\ \E outcomes \in UniformOutcomes(race.callers[c].query) :
       Bind(QueryTypes[race.callers[c].query], LAMBDA query_type :
         Bind(build_context(query_type,
                            run_searches(searches_to_run(query_type,
                                           IsDocumentation[race.callers[c].query]),
                                         outcomes)),
              LAMBDA context :
           /\ context_cache' = cache_context(QueryTypeKeys[query_type], context,
                                             context_cache, now)
           /\ race' = [race EXCEPT
                         !.callers[c] = [@ EXCEPT !.pc = "done", !.ret = context],
                         !.written = @ \cup {<<QueryTypeKeys[query_type], context>>}]))
  /\ UNCHANGED <<now, embedding_cache, last, calls, stores>>
  /\ UNCHANGED <<lateVars, cls, keyrun, cum, asm, tl, sweep, run>>

\* the clock advances between the steps of the callers
TickRace ==
  /\ now < MaxRaceTime
  /\ now' = now + 1
  /\ UNCHANGED <<embedding_cache, context_cache, last, calls, stores>>
  /\ UNCHANGED <<cls, keyrun, cum, moreVars>>

NextRace ==
  \/ \E c \in Callers :
       EmbeddingLookup(c) \/ EmbeddingStore(c) \/ ContextLookup(c) \/ ContextStore(c)
  \/ TickRace

SpecRace == InitRace /\ [][NextRace]_vars

(***************************************************************************)
(* Properties of the concurrent callers (SpecRace)                         *)
(***************************************************************************)
\* C14: the timestamp stored under a key of the embedding cache or of the
\* context cache never decreases when the key is written again, also when two
\* callers miss on the key together and both compute and write.
C14_TimestampsNeverDecrease ==
  [][/\ \A k \in DOMAIN embedding_cache \cap DOMAIN embedding_cache' :
          embedding_cache'[k].timestamp >= embedding_cache[k].timestamp
     /\ \A k \in DOMAIN context_cache \cap DOMAIN context_cache' :
          context_cache'[k].timestamp >= context_cache[k].timestamp]_vars

\* C19: two runs that write the context cache under the same key write the
\* same context.
C19_SameKeySameContext ==
  \A w1 \in race.written, w2 \in race.written :
    w1[1] = w2[1] => w1[2] = w2[2]

(***************************************************************************)
(* Specification of predict_failure_timeline over several components, the  *)
(* model of a component answering a probability or raising at each horizon *)
(***************************************************************************)
\* what model.predict_proba does: it raises, or answers a probability
ModelError == [error |-> TRUE, value |-> <<>>]
Predicted(p) == [error |-> FALSE, value |-> p]

\* the function without the handler: nothing is returned for the point
calculate_failure_probability_unhandled(outcome) == outcome.value

\* time_predictions.py 140-145: the probability of the model, 0.0 if it raised
calculate_failure_probability_at_mileage(outcome) ==
  IF outcome.error THEN Zero ELSE outcome.value

\* time_predictions.py 165-176: the entries of one component; model gives what
\* its predict_proba does at each horizon
component_timeline(model, vehicle_data, time_windows) ==
  predict_failure_timeline(vehicle_data, time_windows,
    [months \in Range(time_windows) |->
       calculate_failure_probability_at_mileage(model[months])])

\* the components, in the order of the models dict
ComponentNames == <<"brakes", "battery">>

TimelineWindows == {<<3>>, <<6, 3>>, <<3, 12, 6>>}

ModelOutcomes == {ModelError, Predicted(Norm(<<5, 100>>)), Predicted(Norm(<<60, 100>>))}

\* the models with every raising call replaced by an answer
Healed(models) ==
  [c \in DOMAIN models |->
     [months \in DOMAIN models[c] |->
        IF models[c][months].error THEN Predicted(Norm(<<60, 100>>))
        ELSE models[c][months]]]

InitTimeline ==
  /\ ChatIdle
  /\ cls = ClsIdle /\ keyrun = KeyIdle /\ cum = CumIdle
  /\ asm = AsmIdle /\ sweep = SweepIdle /\ race = RaceIdle /\ run = RunIdle /\ LateIdle
  /\ \E time_windows \in TimelineWindows :
       \E models \in [Range(ComponentNames) -> [Range(time_windows) -> ModelOutcomes]] :
         tl = [pc |-> "loop", time_windows |-> time_windows, models |-> models,
               i |-> 1, timeline_predictions |-> Empty, healed_predictions |-> Empty]

\* time_predictions.py 162-176: one iteration of the loop over the models, run
\* on the models given and on the models with no raising call
PredictComponent ==
  /\ tl.pc = "loop"
  /\ tl.i <= Len(ComponentNames)
  /\ tl' = [tl EXCEPT
              !.i = @ + 1,
              !.timeline_predictions =
                 Put(@, ComponentNames[tl.i],
                     component_timeline(tl.models[ComponentNames[tl.i]], Vehicle,
                                        tl.time_windows)),
              !.healed_predictions =
                 Put(@, ComponentNames[tl.i],
                     component_timeline(Healed(tl.models)[ComponentNames[tl.i]], Vehicle,
                                        tl.time_windows))]
  /\ UNCHANGED <<chatVars, lateVars, cls, keyrun, cum, asm, sweep, race, run>>

\* time_predictions.py 178
TimelineReturn ==
  /\ tl.pc = "loop"
  /\ tl.i > Len(ComponentNames)
  /\ tl' = [tl EXCEPT !.pc = "done"]
  /\ UNCHANGED <<chatVars, lateVars, cls, keyrun, cum, asm, sweep, race, run>>

NextTimeline == PredictComponent \/ TimelineReturn

SpecTimeline == InitTimeline /\ [][NextTimeline]_vars

(***************************************************************************)
(* Properties of the point timeline (SpecTimeline)                         *)
(***************************************************************************)
\* the model of the component raises at no horizon
NeverRaises(c) == \A months \in DOMAIN tl.models[c] : ~tl.models[c][months].error

\* C18: in predict_failure_timeline a model that raises at a horizon gives
\* probability 0 for that component and horizon and the request is not aborted:
\* every component has an entry for every horizon requested, and the entries of
\* the components whose model does not raise are what they are when no model
\* raises.
C18_FailureIsZeroAndLocal ==
  tl.pc = "done" =>
    /\ DOMAIN tl.timeline_predictions = Range(ComponentNames)
    /\ \A c \in Range(ComponentNames) :
         /\ DOMAIN tl.timeline_predictions[c]
              = {WindowLabel(months) : months \in Range(tl.time_windows)}
         /\ \A months \in Range(tl.time_windows) :
              /\ tl.models[c][months].error =>
                   tl.timeline_predictions[c][WindowLabel(months)].probability = Zero
              /\ ~tl.models[c][months].error =>
                   tl.timeline_predictions[c][WindowLabel(months)]
                     = tl.healed_predictions[c][WindowLabel(months)]
         /\ NeverRaises(c) => tl.timeline_predictions[c] = tl.healed_predictions[c]

\* the model of the first component raised at one of three horizons and the
\* model of the second answered at all of them
C18_OneModelRaisedOnce ==
  /\ tl.pc = "done"
  /\ Len(tl.time_windows) = 3
  /\ tl.models["brakes"][12].error
  /\ ~tl.models["brakes"][3].error
  /\ NeverRaises("battery")
  /\ tl.timeline_predictions["brakes"][WindowLabel(12)].probability = Zero

(***************************************************************************)
(* Specification of an insertion into caches filled to their capacity, the *)
(* entries being older than the expiry, exactly as old, or fresh           *)
(***************************************************************************)
\* at most MaxAged entries older than the expiry, and as many exactly as old
MaxAged == 2

\* the instant of the insertions
SweepInstant == EMBEDDING_CACHE_EXPIRY + 1

\* n entries under the keys "1" .. "n": the first aged ones written expiry + 1
\* seconds before the instant, the next level ones expiry seconds before it, the
\* others at the instant
Filled(n, aged, level, expiry, value) ==
  [key \in {IntToStr(i) : i \in 1..n} |->
     value @@ [timestamp |->
                 IF StrToInt(key) <= aged THEN SweepInstant - expiry - 1
                 ELSE IF StrToInt(key) <= aged + level THEN SweepInstant - expiry
                 ELSE SweepInstant]]

\* the sizes around the capacity
SizesAround(limit) == (limit - 1)..(limit + 1)

InitSweep ==
  /\ now = SweepInstant
  /\ last = NoCall /\ stores = Empty /\ calls = 0
  /\ cls = ClsIdle /\ keyrun = KeyIdle /\ cum = CumIdle
  /\ asm = AsmIdle /\ tl = TlIdle /\ race = RaceIdle /\ run = RunIdle /\ LateIdle
  /\ \E n \in SizesAround(EMBEDDING_CACHE_LIMIT), aged \in 0..MaxAged, level \in 0..MaxAged :
       embedding_cache = Filled(n, aged, level, EMBEDDING_CACHE_EXPIRY, [embedding |-> <<1>>])
  /\ \E n \in SizesAround(CONTEXT_CACHE_LIMIT), aged \in 0..MaxAged, level \in 0..MaxAged :
       context_cache = Filled(n, aged, level, CONTEXT_CACHE_EXPIRY, [context |-> <<"Potential Issues:">>])
  /\ sweep = [pc |-> "start", embedding_inserted |-> FALSE, context_inserted |-> FALSE]

\* chat.py 44-86: get_embedding of a text that is not in the cache
InsertEmbedding ==
  /\ ~sweep.embedding_inserted
  /\ Bind(get_embedding(Q_price, embedding_cache, now, Some(<<1>>)), LAMBDA e :
       embedding_cache' = e.cache)
  /\ sweep' = [sweep EXCEPT !.pc = "inserted", !.embedding_inserted = TRUE]
  /\ UNCHANGED <<now, context_cache, last, calls, stores>>
  /\ UNCHANGED <<lateVars, cls, keyrun, cum, asm, tl, race, run>>

\* chat.py 111-120: cache_context under a key that is not in the cache
InsertContext ==
  /\ ~sweep.context_inserted
  /\ context_cache' = cache_context(QueryTypeKeys[QueryTypes[Q_price]],
                                    <<"\nRelevant Documentation:">>, context_cache, now)
  /\ sweep' = [sweep EXCEPT !.pc = "inserted", !.context_inserted = TRUE]
  /\ UNCHANGED <<now, embedding_cache, last, calls, stores>>
  /\ UNCHANGED <<lateVars, cls, keyrun, cum, asm, tl, race, run>>

NextSweep == InsertEmbedding \/ InsertContext

SpecSweep == InitSweep /\ [][NextSweep]_vars

(***************************************************************************)
(* Properties of the sweep (SpecSweep)                                     *)
(***************************************************************************)
\* after an insertion under key at the instant now that left more than limit
\* entries, the cache holds the entries not older than the expiry, unchanged,
\* and no other
SweptExactly(before, after, key, limit, expiry) ==
  Cardinality(DOMAIN before \cup {key}) > limit =>
    /\ DOMAIN after
         = {key} \cup {k \in DOMAIN before \ {key} : ~(now - before[k].timestamp > expiry)}
    /\ \A k \in DOMAIN after \ {key} : after[k] = before[k]
    /\ after[key].timestamp = now

\* C20: an insertion that leaves more than 100 embedding entries or more than
\* 50 context entries is followed by a sweep that removes every entry older than
\* the expiry of the cache and no other entry.
C20_SweepRemovesExpiredOnly ==
  [][/\ (sweep'.embedding_inserted /\ ~sweep.embedding_inserted) =>
          SweptExactly(embedding_cache, embedding_cache', EmbeddingKeys[Q_price],
                       EMBEDDING_CACHE_LIMIT, EMBEDDING_CACHE_EXPIRY)
     /\ (sweep'.context_inserted /\ ~sweep.context_inserted) =>
          SweptExactly(context_cache, context_cache', QueryTypeKeys[QueryTypes[Q_price]],
                       CONTEXT_CACHE_LIMIT, CONTEXT_CACHE_EXPIRY)]_vars

\* both caches were swept and are still above their capacity, and entries whose
\* age is exactly the expiry are still there
C20_StillAboveCapacity ==
  /\ sweep.embedding_inserted
  /\ sweep.context_inserted
  /\ Cardinality(DOMAIN embedding_cache) > EMBEDDING_CACHE_LIMIT
  /\ Cardinality(DOMAIN context_cache) > CONTEXT_CACHE_LIMIT
  /\ IntToStr(1) \notin DOMAIN context_cache
  /\ IntToStr(1) \notin DOMAIN embedding_cache
  /\ \E k \in DOMAIN context_cache : now - context_cache[k].timestamp = CONTEXT_CACHE_EXPIRY
  /\ \E k \in DOMAIN embedding_cache : now - embedding_cache[k].timestamp = EMBEDDING_CACHE_EXPIRY

(***************************************************************************)
(* Properties of the selection of the searches (SpecClassify)              *)
(***************************************************************************)
\* the tag is in the list the classifier returned
HasTag(tag) == InSeq(tag, cls.query_types)

\* the search is among the searches selected
Selects(function_name) == InSeq(function_name, SearchNames(cls.searches))

\* C21: a search is selected exactly when one of its tags is in the tags of the
\* query, and at most once: the parts for part or mechanic, the components for
\* mechanic, the part prices for pricing, the failure descriptions for diagnostic
\* or symptom, the documentation for documentation.
C21_SelectedByTags ==
  cls.pc = "done" =>
    /\ NoRepeat(SearchNames(cls.searches))
    /\ Selects("match_parts") <=> (HasTag(T_part) \/ HasTag(T_mechanic))
    /\ Selects("match_components") <=> HasTag(T_mechanic)
    /\ Selects("match_part_prices") <=> HasTag(T_pricing)
    /\ Selects("match_failure_descriptions") <=> (HasTag(T_diagnostic) \/ HasTag(T_symptom))
    /\ Selects("match_documentation") <=> HasTag(T_documentation)

\* a query about a car and the database: the parts, the components and the
\* documentation are searched, the part prices and the failures are not
C21_MechanicAndDocumentation ==
  /\ cls.pc = "done"
  /\ HasTag(T_mechanic)
  /\ HasTag(T_documentation)
  /\ SearchNames(cls.searches) = <<"match_parts", "match_components", "match_documentation">>

\* the tags detect_query_type can append
ClassifierTags == {T_mechanic, T_diagnostic, T_symptom, T_pricing, T_part, T_documentation}

\* C22: every tag detect_query_type returns is one of mechanic, diagnostic,
\* symptom, pricing, part, documentation, no tag is returned twice, and
\* diagnostic is returned exactly when symptom is.
C22_TagsOfVocabulary ==
  cls.pc = "done" =>
    /\ Range(cls.query_types) \subseteq ClassifierTags
    /\ NoRepeat(cls.query_types)
    /\ HasTag(T_diagnostic) <=> HasTag(T_symptom)

\* a query that gets five tags, diagnostic and symptom among them
C22_FiveTags ==
  /\ cls.pc = "done"
  /\ Len(cls.query_types) >= 5
  /\ HasTag(T_diagnostic)
  /\ HasTag(T_symptom)

(***************************************************************************)
(* Properties of the sections of the context (SpecAssemble)                *)
(***************************************************************************)
\* the search was run and answered no row
AnsweredNothing(function_name) ==
  /\ function_name \in DOMAIN asm.outcomes
  /\ asm.outcomes[function_name] = Response(<<>>)

\* the tags ask for the failures and the part prices first
AsksForIssues ==
  \/ InSeq(T_mechanic, asm.query_type)
  \/ InSeq(T_diagnostic, asm.query_type)
  \/ InSeq(T_symptom, asm.query_type)

\* C23: with mechanic, diagnostic or symptom among the tags, a failure search
\* that finds nothing gives the line "Potential Issues: None found" and a part
\* price search that finds nothing gives "Relevant Parts with Pricing: None
\* found", and every other section without results is left out.
C23_NoneFoundLines ==
  (asm.pc = "done" /\ AsksForIssues) =>
    /\ AnsweredNothing("match_failure_descriptions") =>
         HasSection("Potential Issues: None found")
    /\ AnsweredNothing("match_part_prices") =>
         HasSection("\nRelevant Parts with Pricing: None found")
    /\ ~Answered("match_parts") => ~HasSection("\nRelevant Parts:")
    /\ ~Answered("match_components") => ~HasSection("\nRelevant Components:")
    /\ ~Answered("match_vehicle_types") => ~HasSection("\nRelevant Vehicle Types:")
    /\ ~Answered("match_documentation") => ~HasSection("\nRelevant Documentation:")

(***************************************************************************)
(* Properties of the order of accumulation (SpecCumulative)                *)
(***************************************************************************)
RECURSIVE AccumulatedUpTo(_)
\* the cumulative probability of a horizon as a function of the set of horizons
\* requested: the update applied to the point probabilities of the horizons up
\* to it, smallest first
AccumulatedUpTo(months) ==
  LET earlier == {h \in Range(cum.time_windows) : h < months}
      before == IF earlier = {} THEN Zero
                ELSE AccumulatedUpTo(CHOOSE h \in earlier : \A g \in earlier : g <= h)
  IN  CumulativeUpdate(before, cum.prob[months])

FoundRows(function_name) ==
  /\ function_name \in DOMAIN last.outcomes
  /\ last.outcomes[function_name].status = "response"
  /\ last.outcomes[function_name].data # <<>>

\* C25: whenever the parts search answered a row, the context returned holds
\* the priced parts section or the bare parts section, and whenever the part
\* price search answered a row it holds the priced parts section, for the tags
\* of every query (part and pricing without mechanic, diagnostic or symptom
\* included).
C25_PartsNeverDropped ==
  Dispatched =>
    /\ FoundRows("match_parts") =>
         \/ InSeq("\nRelevant Parts with Pricing:", last.ret)
         \/ InSeq("\nRelevant Parts:", last.ret)
    /\ FoundRows("match_part_prices") =>
         InSeq("\nRelevant Parts with Pricing:", last.ret)

(***************************************************************************)
(* Properties of the stored contexts (Spec)                                *)
(***************************************************************************)
\* C26: a call that reads the context cache less than CONTEXT_CACHE_EXPIRY
\* seconds after a run stored a context under its tag signature returns that
\* context and issues no similarity search, also when the context stored is the
\* empty string.
C26_StoredContextServed ==
  (LookedUpEntry /\ last.time - last.found.value.timestamp < CONTEXT_CACHE_EXPIRY) =>
    /\ last.ret = last.found.value.context
    /\ \A i \in 1..Len(last.trace) : last.trace[i] \notin AllFunctionNames

(***************************************************************************)
(* Properties of the vehicle types search (SpecClassify)                   *)
(***************************************************************************)
\* the context assembled when every search selected answers rows
ContextOfAllRows ==
  build_context(cls.query_types,
                run_searches(cls.searches,
                             [f \in Range(SearchNames(cls.searches)) |-> OutcomeOf(f, "rows")]))

\* C27: match_vehicle_types is selected for no query, because detect_query_type
\* returns none of the tags vehicle, make, model; so no assembled context holds
\* the vehicle types section.
C27_VehicleTypesNeverSearched ==
  cls.pc = "done" =>
    /\ ~HasTag(T_vehicle) /\ ~HasTag(T_make) /\ ~HasTag(T_model)
    /\ ~Selects("match_vehicle_types")
    /\ ~InSeq("\nRelevant Vehicle Types:", ContextOfAllRows)

\* a query that names a year, a make and a car is tagged mechanic and its
\* searches are the parts and the components
C27_VehicleNamed ==
  /\ cls.pc = "done"
  /\ cls.query = <<"2","0","1","5"," ","H","o","n","d","a"," ","c","a","r">>
  /\ HasTag(T_mechanic)
  /\ Selects("match_parts")
  /\ Selects("match_components")
  /\ ~Selects("match_vehicle_types")
  /\ InSeq("\nRelevant Components:", ContextOfAllRows)

(***************************************************************************)
(* Properties of the expiry tests (SpecSweep)                              *)
(***************************************************************************)
\* the insertion left the cache above its capacity, so the sweep has just run
EmbeddingSwept ==
  sweep.pc = "inserted" /\ sweep.embedding_inserted
    /\ Cardinality(DOMAIN embedding_cache) > EMBEDDING_CACHE_LIMIT

ContextSwept ==
  sweep.pc = "inserted" /\ sweep.context_inserted
    /\ Cardinality(DOMAIN context_cache) > CONTEXT_CACHE_LIMIT

\* C28: lookup and sweep agree on expiry in both caches at every age, the age
\* equal to the expiry included: an entry the sweep has just kept is one that a
\* lookup at the same instant serves (an entry a lookup refuses is one the sweep
\* removes).
C28_SweepAndLookupAgree ==
  /\ EmbeddingSwept =>
       \A key \in DOMAIN embedding_cache : EmbeddingCacheHit(embedding_cache, key, now)
  /\ ContextSwept =>
       \A key \in DOMAIN context_cache :
         ~get_cached_context(key, context_cache, now).is_none

\* ---------------------------------------------------------------------------
\* generate_chat_response (chat.py 427-484): the conversation history of each
\* session, the message list sent to the completion provider and the text
\* returned.  conversation_history is the module-level dict of chat.py 26.
\* ---------------------------------------------------------------------------

MaxChatCalls == 7

HISTORY_WINDOW == 10

Sessions == {"s1", "s2"}

SYSTEM_PROMPT == "SYSTEM_PROMPT"

FORMAT_PROMPT == "Use simple formatting in your responses"

APOLOGY == "I'm sorry, I encountered an error while processing your request. Please try again later."

\* The n-th user message and the provider's answer to it.
UserMessage(n) == "message " \o ToString(n)

ResponseText(n) == "response " \o ToString(n)

\* RETRIEVAL_PROMPT.format(context=context)
RETRIEVAL_PROMPT(context) == "RETRIEVAL_PROMPT " \o context

\* What search_database_for_context can hand back: an assembled context, the
\* empty context of a query that matched nothing, and the empty string of its
\* own except branch (chat.py 330-332) when the retrieval failed.
RetrievalOutcomes == {"found", "nothing", "failed"}

ContextOf(retrieval) == IF retrieval = "found" THEN "Relevant Vehicle Parts:" ELSE ""

\* client.chat.completions.create either answers or raises.
CompletionOutcomes == {"answers", "raises"}

Message(role, content) == [role |-> role, content |-> content]

\* conversation_history[session_id][-10:] with the whole history sent instead
history_window_unbounded(history) == history

\* conversation_history[session_id][-10:]
history_window(history) ==
  IF Len(history) <= HISTORY_WINDOW THEN history
  ELSE SubSeq(history, Len(history) - HISTORY_WINDOW + 1, Len(history))

\* The message list of chat.py 447-463.
chat_messages(history, context, message) ==
  << Message("system", SYSTEM_PROMPT), Message("system", FORMAT_PROMPT) >>
    \o history_window(history)
    \o (IF context # "" THEN << Message("system", RETRIEVAL_PROMPT(context)) >> ELSE << >>)
    \o << Message("user", message) >>

\* chat.py 477-478
history_update(history, message, response_text) ==
  history \o << Message("user", message), Message("assistant", response_text) >>

\* chat.py 441-442: a session seen for the first time gets an empty history.
with_session(conversation_history, session_id) ==
  IF session_id \in DOMAIN conversation_history THEN conversation_history
  ELSE [s \in DOMAIN conversation_history \cup {session_id} |->
          IF s = session_id THEN << >> ELSE conversation_history[s]]

HistoryOf(conversation_history, session_id) ==
  IF session_id \in DOMAIN conversation_history THEN conversation_history[session_id]
  ELSE << >>

InitChat ==
  /\ ChatIdle
  /\ cls = ClsIdle /\ keyrun = KeyIdle /\ cum = CumIdle
  /\ asm = AsmIdle /\ tl = TlIdle /\ sweep = SweepIdle /\ race = RaceIdle /\ run = RunIdle
  /\ rt = RtIdle
  /\ conv = [pc |-> "ready", conversation_history |-> << >>, calls |-> 0,
             session_id |-> "", retrieval |-> "", completion |-> "",
             before |-> << >>, messages |-> << >>, returned |-> ""]

\* One call of generate_chat_response(message, session_id, supabase).
generate_chat_response(session_id, retrieval, completion) ==
  /\ conv.pc \in {"ready", "returned"}
  /\ conv.calls < MaxChatCalls
  /\ LET n == conv.calls + 1
         message == UserMessage(n)
         opened == with_session(conv.conversation_history, session_id)
         context == ContextOf(retrieval)
         messages == chat_messages(opened[session_id], context, message)
         response_text == ResponseText(n)
     IN conv' = [conv EXCEPT
                   !.pc = "returned", !.calls = n, !.session_id = session_id,
                   !.retrieval = retrieval, !.completion = completion,
                   !.before = HistoryOf(conv.conversation_history, session_id),
                   !.messages = messages,
                   !.conversation_history =
                      IF completion = "answers"
                      THEN [opened EXCEPT ![session_id] =
                              history_update(opened[session_id], message, response_text)]
                      ELSE opened,
                   !.returned = IF completion = "answers" THEN response_text ELSE APOLOGY]
  /\ UNCHANGED <<chatVars, cls, keyrun, cum, asm, tl, sweep, race, run, rt>>

ChatCall ==
  \E session_id \in Sessions, retrieval \in RetrievalOutcomes, completion \in CompletionOutcomes :
    generate_chat_response(session_id, retrieval, completion)

NextChat == ChatCall

SpecChat == InitChat /\ [][NextChat]_vars

ConvReturned == conv.pc = "returned"

ConvHistory == HistoryOf(conv.conversation_history, conv.session_id)

\* The history is user/assistant pairs, each pair one call's message and its
\* answer, the calls in increasing order.
RECURSIVE PairsInCallOrder(_, _)
PairsInCallOrder(history, after) ==
  IF history = << >> THEN TRUE
  ELSE /\ Len(history) >= 2
       /\ history[1].role = "user" /\ history[2].role = "assistant"
       /\ \E n \in (after + 1)..MaxChatCalls :
            /\ history[1].content = UserMessage(n)
            /\ history[2].content = ResponseText(n)
            /\ PairsInCallOrder(SubSeq(history, 3, Len(history)), n)

\* The entries of the message list that come from the history: everything
\* between the two leading system prompts and the trailing retrieval prompt
\* and user turn.
SentHistory ==
  SubSeq(conv.messages, 3,
         Len(conv.messages) - (IF ContextOf(conv.retrieval) # "" THEN 2 ELSE 1))

IsSuffix(s, t) == Len(s) <= Len(t) /\ s = SubSeq(t, Len(t) - Len(s) + 1, Len(t))

MaxRtCalls == 2

MaxChunks == 1

EventTypes == {"delta", "complete", "error"}

TerminalEvents == {"complete", "error"}

Methods == {"send_message", "send_message_with_history"}

NoOne == 0

\* chunk.choices[0].delta.content of a chunk that has some
CONTENT == "content"

\* What an awaited handler does: return, raise, or suspend and let the loop
\* run something else before it returns or raises.
HandlerOutcomes == {"returns", "raises", "suspends"}

\* What the next step of `for chunk in stream` yields: a chunk with content,
\* a chunk whose delta.content is empty, the end of the stream, an exception.
ChunkOutcomes == {"content", "empty", "stop", "raises"}

\* send_event with the handler's exception escaping into the caller
after_handler_uncaught(awaited, outcome) ==
  IF outcome = "raises"
  THEN (IF awaited = "error" THEN "finally" ELSE "except")
  ELSE (IF awaited = "delta" THEN "iterate" ELSE "finally")

\* Where the call goes on once the handler awaited by send_event is done:
\* send_event catches what the handler raises (lines 77-81), so the loop over
\* the chunks goes on after a delta, and the finally block follows a complete
\* or an error.
after_handler(awaited, outcome) ==
  IF awaited = "delta" THEN "iterate" ELSE "finally"

InitRealtime ==
  /\ ChatIdle
  /\ cls = ClsIdle /\ keyrun = KeyIdle /\ cum = CumIdle
  /\ asm = AsmIdle /\ tl = TlIdle /\ sweep = SweepIdle /\ race = RaceIdle /\ run = RunIdle
  /\ conv = ConvIdle
  /\ \E registered \in SUBSET EventTypes :
       rt = [pc |-> "open", event_handlers |-> registered,
             is_streaming |-> FALSE, message_buffer |-> << >>, message_id |-> NoOne,
             running |-> NoOne, method |-> "", frames |-> << >>]

rtRest == <<chatVars, cls, keyrun, cum, asm, tl, sweep, race, run, conv>>

Frame(pc) == [pc |-> pc, chunks |-> 0, emitted |-> << >>]

\* send_event(event) made by call c (lines 64-81) on the frames given: the
\* event is emitted; without a handler of its type the call goes straight on,
\* with one the handler is awaited.
send_event(frames, c, type, outcome) ==
  LET awaited == type \in rt.event_handlers
      next == IF awaited /\ outcome = "suspends" THEN "await_" \o type
              ELSE after_handler(type, IF awaited THEN outcome ELSE "returns")
  IN [frames |-> [frames EXCEPT ![c] = [@ EXCEPT !.emitted = Append(@, type), !.pc = next]],
      running |-> IF awaited /\ outcome = "suspends" THEN NoOne ELSE c]

\* Lines 90-96 / 163-169: the guard and the three assignments.
StartCall ==
  /\ rt.pc = "open" /\ rt.running = NoOne
  /\ Len(rt.frames) < MaxRtCalls
  /\ \E method \in Methods :
       LET c == Len(rt.frames) + 1
       IN IF rt.is_streaming
          THEN rt' = [rt EXCEPT !.frames = Append(@, Frame("rejected")), !.method = method]
          ELSE rt' = [rt EXCEPT !.frames = Append(@, Frame("create")), !.method = method,
                                !.is_streaming = TRUE, !.message_buffer = << >>,
                                !.message_id = c, !.running = c]
  /\ UNCHANGED rtRest

\* Lines 98-122 / 171-232: the message list is built and the stream created;
\* either may raise.
CreateStream ==
  /\ rt.running # NoOne /\ rt.frames[rt.running].pc = "create"
  /\ \E raised \in BOOLEAN :
       rt' = [rt EXCEPT !.frames[rt.running].pc = IF raised THEN "except" ELSE "iterate"]
  /\ UNCHANGED rtRest

\* Lines 125-141 / 235-251: one step of the loop over the chunks, or the
\* complete event once the stream has ended.
NextChunk ==
  /\ rt.running # NoOne /\ rt.frames[rt.running].pc = "iterate"
  /\ LET c == rt.running
     IN \E chunk \in ChunkOutcomes, outcome \in HandlerOutcomes :
          /\ chunk \in {"content", "empty"} => rt.frames[c].chunks < MaxChunks
          /\ chunk # "content" /\ chunk # "stop" => outcome = "returns"
          /\ CASE chunk = "content" ->
                    LET counted == [rt.frames EXCEPT ![c].chunks = @ + 1]
                        sent == send_event(counted, c, "delta", outcome)
                    IN rt' = [rt EXCEPT !.message_buffer = Append(@, CONTENT),
                                        !.frames = sent.frames, !.running = sent.running]
                [] chunk = "empty" -> rt' = [rt EXCEPT !.frames[c].chunks = @ + 1]
                [] chunk = "stop" ->
                    LET sent == send_event(rt.frames, c, "complete", outcome)
                    IN rt' = [rt EXCEPT !.frames = sent.frames, !.running = sent.running]
                [] chunk = "raises" -> rt' = [rt EXCEPT !.frames[c].pc = "except"]
  /\ UNCHANGED rtRest

\* Lines 143-150 / 253-260: the error event.
Except ==
  /\ rt.running # NoOne /\ rt.frames[rt.running].pc = "except"
  /\ \E outcome \in HandlerOutcomes :
       LET sent == send_event(rt.frames, rt.running, "error", outcome)
       IN rt' = [rt EXCEPT !.frames = sent.frames, !.running = sent.running]
  /\ UNCHANGED rtRest

\* A handler that suspended returns or raises, and its call goes on.
ResumeHandler ==
  /\ rt.running = NoOne
  /\ \E c \in 1..Len(rt.frames), type \in EventTypes, outcome \in {"returns", "raises"} :
       /\ rt.frames[c].pc = "await_" \o type
       /\ rt' = [rt EXCEPT !.frames[c].pc = after_handler(type, outcome), !.running = c]
  /\ UNCHANGED rtRest

\* Lines 152-153 / 262-263: the finally block, and the call returns.
Finally ==
  /\ rt.running # NoOne /\ rt.frames[rt.running].pc = "finally"
  /\ rt' = [rt EXCEPT !.is_streaming = FALSE, !.running = NoOne,
                      !.frames[rt.running].pc = "returned", !.frames[rt.running].chunks = 0]
  /\ UNCHANGED rtRest

\* close() (lines 302-306), called while no call holds the loop.
Close ==
  /\ rt.pc = "open" /\ rt.running = NoOne
  /\ rt' = [rt EXCEPT !.is_streaming = FALSE]
  /\ UNCHANGED rtRest

NextRealtime ==
  \/ StartCall
  \/ CreateStream
  \/ NextChunk
  \/ Except
  \/ ResumeHandler
  \/ Finally
  \/ Close

SpecRealtime == InitRealtime /\ [][NextRealtime]_vars

RtCalls == 1..Len(rt.frames)

Started(c) == rt.frames[c].pc # "rejected"

\* Zero or more deltas, then at most one event that is not a delta.
DeltasThenTerminal(emitted) ==
  /\ \A i \in 1..(Len(emitted) - 1) : emitted[i] = "delta"
  /\ \A i \in 1..Len(emitted) : emitted[i] \in EventTypes

EndsWithTerminal(emitted) ==
  Len(emitted) >= 1 /\ emitted[Len(emitted)] \in TerminalEvents

EventsInOrder ==
  \A c \in RtCalls :
    /\ DeltasThenTerminal(rt.frames[c].emitted)
    /\ (rt.frames[c].pc = "returned" => EndsWithTerminal(rt.frames[c].emitted))
    /\ (rt.frames[c].pc = "rejected" => rt.frames[c].emitted = << >>)

\* A step in which a started call returns leaves is_streaming false.
ReturnsNotStreaming ==
  \A c \in RtCalls :
    (rt.frames[c].pc # "returned" /\ rt'.frames[c].pc = "returned") => ~rt'.is_streaming

\* A call is turned away exactly when is_streaming is true, and the step
\* changes nothing of the client and nothing of the other calls.
RejectedChangesNothing ==
  Len(rt'.frames) = Len(rt.frames) + 1 =>
    LET c == Len(rt'.frames)
    IN /\ (rt'.frames[c].pc = "rejected") = rt.is_streaming
       /\ rt'.frames[c].pc = "rejected" =>
            /\ rt'.is_streaming = rt.is_streaming
            /\ rt'.message_buffer = rt.message_buffer
            /\ rt'.message_id = rt.message_id
            /\ rt'.event_handlers = rt.event_handlers
            /\ rt'.running = rt.running
            /\ \A d \in RtCalls : rt'.frames[d] = rt.frames[d]

\* C30: every send_message / send_message_with_history call that starts
\* streaming emits zero or more delta events followed by exactly one terminal
\* event, complete or error and never both, with no delta after it;
\* is_streaming is false when such a call returns, on every path; and a call
\* made while is_streaming is true emits no event and changes no state.
C30_DeltasThenOneTerminal ==
  /\ [](rt.pc = "open" => EventsInOrder)
  /\ [][rt.pc = "open" => (ReturnsNotStreaming /\ RejectedChangesNothing)]_vars

\* C30 witness: a call streamed a delta, was suspended in its handler while a
\* second call was turned away, and then returned after its complete event.
C30_StreamedAroundRejectedCall ==
  /\ rt.pc = "open"
  /\ Len(rt.frames) = 2
  /\ rt.frames[1].pc = "returned"
  /\ rt.frames[1].emitted = << "delta", "complete" >>
  /\ rt.frames[2].pc = "rejected"
  /\ ~rt.is_streaming
====
